---- MODULE Spec2Model ----
(***************************************************************************)
(* A model of the pool estimate calculator (src/app.py, src/kp_profiles.py) *)
(*                                                                         *)
(* Numbers.  Python floats are modelled as exact rationals <<n, d>> with   *)
(* d > 0 in lowest terms; int values are rationals with d = 1.  round()    *)
(* and the "%.1f" / "%.0f" formats round the exact value, ties to even.    *)
(* Strings.  A formatted quantity such as "32.0 m2" is the record          *)
(* [v |-> 320, dec |-> 1, unit |-> "m2"]: the digits that were printed, the *)
(* number of decimals and the unit suffix.  Parsing it back (split()[0],   *)
(* float) yields 320/10, so a value that went through a string has lost    *)
(* everything after the printed decimals.                                  *)
(* Dictionaries are records; the Russian keys of the source are written in *)
(* Latin transliteration, one distinct name per distinct key.              *)
(***************************************************************************)
EXTENDS Integers, Sequences, FiniteSets, TLC

VARIABLES PROFILES, op, args, result, pinned

vars == <<PROFILES, op, args, result, pinned>>

(* Python's None *)
None == [t |-> "none"]

-----------------------------------------------------------------------------
(* Exact rational arithmetic                                               *)

Abs(x) == IF x < 0 THEN -x ELSE x

RECURSIVE GCD(_, _)
GCD(a, b) == IF b = 0 THEN a ELSE GCD(b, a % b)

NormBy(n, d, g) == IF d < 0 THEN <<(-n) \div g, (-d) \div g>> ELSE <<n \div g, d \div g>>

(* n / d in lowest terms, the denominator positive *)
Norm(n, d) == NormBy(n, d, GCD(Abs(n), Abs(d)))

R(n) == <<n, 1>>
Frac(n, d) == Norm(n, d)

RMulBy(x, y, g1, g2) == <<(x[1] \div g1) * (y[1] \div g2), (x[2] \div g2) * (y[2] \div g1)>>

RMul(x, y) == RMulBy(x, y, GCD(Abs(x[1]), y[2]), GCD(Abs(y[1]), x[2]))

RInv(x) == IF x[1] < 0 THEN <<-x[2], -x[1]>> ELSE <<x[2], x[1]>>

RDiv(x, y) == RMul(x, RInv(y))

RAddBy(x, y, g) == Norm(x[1] * (y[2] \div g) + y[1] * (x[2] \div g), (x[2] \div g) * y[2])

RAdd(x, y) == RAddBy(x, y, GCD(x[2], y[2]))

RSub(x, y) == RAdd(x, <<-y[1], y[2]>>)

RPos(x) == x[1] > 0

RIsZero(x) == x[1] = 0

(* float("inf"), and every float so large that the volumes computed from   *)
(* it overflow to it: positive, and no arithmetic of the model is applied  *)
(* to it                                                                   *)
Inf == <<1, 0>>

IsInf(x) == x[2] = 0

(* The smallest positive float, 5e-324: positive, and 0.0 once divided by  *)
(* 1000.  No arithmetic is applied to it.                                  *)
MinFloat == <<1, -1>>
IsMinFloat(x) == x[2] < 0

(* x / 1000, the first step of every part of the calculation, is 0.0 for   *)
(* the smallest positive float: the parts compute what they compute for a  *)
(* dimension of 0 mm                                                       *)
underflowed(x) == IF IsMinFloat(x) THEN R(0) ELSE x

(* int(x): truncation towards zero *)
Trunc(x) == IF x[1] >= 0 THEN x[1] \div x[2] ELSE -((-x[1]) \div x[2])

(* int(x) where the code has math.ceil(x) *)
truncated(x) == Trunc(x)

(* math.ceil *)
Ceil(x) == -((-x[1]) \div x[2])

(* round(x): the nearest integer, ties to the even one *)
RoundBy(f, r, d) ==
    IF 2 * r < d THEN f
    ELSE IF 2 * r > d THEN f + 1
    ELSE IF f % 2 = 0 THEN f ELSE f + 1

Round(x) == RoundBy(x[1] \div x[2], x[1] % x[2], x[2])

(* round(x, 1) and round(x, 2) *)
Round1(x) == Frac(Round(RMul(x, R(10))), 10)
Round2(x) == Frac(Round(RMul(x, R(100))), 100)

(* round(k * x) for an integer k that may be large: long multiplication,   *)
(* one decimal digit of k at a time, so that no intermediate product       *)
(* leaves the machine range of the model checker                           *)
RECURSIVE MulDivMod(_, _, _)
MulDivStep(hi, t, d) == <<hi[1] * 10 + t \div d, t % d>>

MulDivNext(k, b, d, hi) == MulDivStep(hi, hi[2] * 10 + (k % 10) * b, d)

MulDivMod(k, b, d) ==
    IF k = 0 THEN <<0, 0>> ELSE MulDivNext(k, b, d, MulDivMod(k \div 10, b, d))

RoundScaledBy(k, a, d, qr) == RoundBy(k * a + qr[1], qr[2], d)

(* int(k * x): the product cut off, not rounded *)
CutScaled(k, x) == k * (x[1] \div x[2]) + MulDivMod(k, x[1] % x[2], x[2])[1]

RoundScaled(k, x) == RoundScaledBy(k, x[1] \div x[2], x[2], MulDivMod(k, x[1] % x[2], x[2]))

-----------------------------------------------------------------------------
(* Formatted strings                                                       *)

Pow10(dec) == IF dec = 0 THEN 1 ELSE 10

(* f"{x:.1f} unit" and f"{x:.0f} unit" *)
Fmt(x, dec, unit) == [v |-> Round(RMul(x, R(Pow10(dec)))), dec |-> dec, unit |-> unit]

(* f"{n}" of an int *)
FmtInt(n) == [v |-> n, dec |-> 0, unit |-> ""]

(* float(value.split()[0].replace(',', '.')) *)
ParseNumber(s) == Frac(s.v, Pow10(s.dec))

(* dict.get(key, default) *)
DictGet(d, key, default) == IF key \in DOMAIN d THEN d[key] ELSE default

-----------------------------------------------------------------------------
(* Python values whose type the code tests at run time                     *)

Str(s) == [t |-> "str", s |-> s]
Num(q) == [t |-> "num", q |-> q]
Dict(d) == [t |-> "dict", d |-> d]
PyNone == None
PyList == [t |-> "list"]
EmptyDict == Dict(<<>>)

IsPyStr(x) == x.t = "str"
IsPyDict(x) == x.t = "dict"
IsPyNum(x) == x.t = "num"

(* Python truthiness: None, "", 0 and {} are false *)
Truthy(x) ==
    CASE x.t = "none" -> FALSE
      [] x.t = "str"  -> x.s # ""
      [] x.t = "num"  -> ~RIsZero(x.q)
      [] x.t = "dict" -> DOMAIN x.d # {}
      [] OTHER        -> TRUE

-----------------------------------------------------------------------------
(* kp_profiles.py: the three profiles                                      *)

KP1 ==
    [name |-> "KP1 (8000x4000x1500)",
     dimensions |-> [length |-> 8000, width |-> 4000, depth |-> 1650, wall_thickness |-> 200],
     basic_dimensions |->
        [water_surface |-> Frac(320, 10), perimeter |-> Frac(260, 10),
         wall_area |-> Frac(396, 10), finishing_area |-> Frac(716, 10),
         water_volume |-> Frac(480, 10)],
     costs |-> [materials_total |-> 817876, works_total |-> 931860,
                equipment_total |-> 1149928, total |-> 2899664],
     lining_price |-> 5400,
     frame_price |-> 0,
     concrete_price |-> 6650,
     materials_prices |->
        [concrete |-> 6650, concrete_m200 |-> 5750, rebar |-> 65000, pvc_film |-> 5400,
         tile |-> 2500, grout |-> 300, waterproofing |-> 800, tile_adhesive |-> 400,
         coping_stone |-> 2600, earthworks |-> 400],
     works_prices |->
        [earthworks |-> 400, concrete_works |-> 7000, reinforcement |-> 1750,
         waterproofing |-> 800, tile_laying |-> 2500, grouting |-> 300,
         equipment_installation |-> 186000, commissioning |-> 0, pool_works_price |-> 13000],
     kp_params |->
        [coping_stone_count |-> 46, lining_area |-> 90, earth_volume |-> 122,
         trucks_count |-> 15, formwork_area |-> 89, plywood_sheets |-> 48,
         rebar_weight |-> Frac(18, 10)]]

KP2 ==
    [name |-> "KP2 (8000x3000x1500)",
     dimensions |-> [length |-> 8000, width |-> 3000, depth |-> 1500, wall_thickness |-> 200],
     basic_dimensions |->
        [water_surface |-> Frac(230, 10), perimeter |-> Frac(220, 10),
         wall_area |-> Frac(330, 10), finishing_area |-> Frac(570, 10),
         water_volume |-> Frac(345, 10)],
     costs |-> [materials_total |-> 583398, works_total |-> 615690,
                equipment_total |-> 929369, total |-> 2128457],
     lining_price |-> 0,
     frame_price |-> 0,
     concrete_price |-> 6650,
     materials_prices |->
        [concrete |-> 5000, rebar |-> 80000, pvc_film |-> 1200, tile |-> 2500,
         grout |-> 300, waterproofing |-> 800, tile_adhesive |-> 400],
     works_prices |->
        [earthworks |-> 1500, concrete_works |-> 3500, reinforcement |-> 2500,
         waterproofing |-> 800, tile_laying |-> 2500, grouting |-> 300,
         equipment_installation |-> 15000, commissioning |-> 20000, pool_works_price |-> 10800]]

KP3 ==
    [name |-> "KP3 (8000x3000x1500) simplified",
     dimensions |-> [length |-> 8000, width |-> 3000, depth |-> 1500, wall_thickness |-> 200],
     basic_dimensions |->
        [water_surface |-> Frac(230, 10), perimeter |-> Frac(220, 10),
         wall_area |-> Frac(330, 10), finishing_area |-> Frac(570, 10),
         water_volume |-> Frac(345, 10)],
     costs |-> [materials_total |-> 320631, works_total |-> 394284,
                equipment_total |-> 728694, total |-> 1443609],
     lining_price |-> 0,
     frame_price |-> 0,
     concrete_price |-> 4800,
     materials_prices |->
        [concrete |-> 4800, rebar |-> 75000, pvc_film |-> 1100, tile |-> 2300,
         grout |-> 280, waterproofing |-> 750, tile_adhesive |-> 380],
     works_prices |->
        [earthworks |-> 1400, concrete_works |-> 3300, reinforcement |-> 2300,
         waterproofing |-> 750, tile_laying |-> 2300, grouting |-> 280,
         equipment_installation |-> 14000, commissioning |-> 18000, pool_works_price |-> 6900]]

(* PROFILES = {"kp1": KP1, "kp2": KP2, "kp3": KP3}: the value of the module *)
(* global when kp_profiles has been imported                               *)
InitProfiles == [kp1 |-> KP1, kp2 |-> KP2, kp3 |-> KP3]

(* A lookup that takes only a string for an id and does not look into a    *)
(* dict                                                                    *)
profile_key_of_string(P, profile_id) ==
    IF ~IsPyStr(profile_id) THEN "kp1"
    ELSE IF profile_id.s \notin DOMAIN P THEN "kp1" ELSE profile_id.s

(* Lines 182-199: the key of the profile object get_profile returns.  P   *)
(* is the table as it stands when the call is made; "return KP1" is the    *)
(* object under kp1                                                        *)
profile_key(P, profile_id) ==
    LET id1 == IF IsPyDict(profile_id)
               THEN DictGet(profile_id.d, "id", Str("kp1"))
               ELSE profile_id
        id2 == IF ~IsPyStr(id1) THEN Str("kp1") ELSE id1
    IN  IF id2.s \notin DOMAIN P THEN "kp1" ELSE id2.s

get_profile(P, profile_id) == P[profile_key(P, profile_id)]

get_profiles_list(P) == {[id |-> key, name |-> P[key].name] : key \in DOMAIN P}

(* No correction: the factor 1 whatever the values are *)
ratio_of_one(x, y) == R(1)

(* x / y if y else 1 *)
RatioOr1(x, y) == IF RIsZero(y) THEN R(1) ELSE RDiv(x, y)

get_dimensions_correction_factor(P, profile_id, original_dimensions) ==
    LET profile == get_profile(P, profile_id)
        length == RDiv(original_dimensions.length, R(1000))
        width  == RDiv(original_dimensions.width, R(1000))
        depth  == RDiv(original_dimensions.depth, R(1000))
        theoretical_water_surface  == RMul(length, width)
        theoretical_perimeter      == RMul(R(2), RAdd(length, width))
        theoretical_wall_area      == RMul(theoretical_perimeter, depth)
        theoretical_finishing_area == RAdd(theoretical_water_surface, theoretical_wall_area)
        theoretical_water_volume   == RMul(theoretical_water_surface, depth)
    IN  [water_surface  |-> RatioOr1(profile.basic_dimensions.water_surface, theoretical_water_surface),
         perimeter      |-> RatioOr1(profile.basic_dimensions.perimeter, theoretical_perimeter),
         wall_area      |-> RatioOr1(profile.basic_dimensions.wall_area, theoretical_wall_area),
         finishing_area |-> RatioOr1(profile.basic_dimensions.finishing_area, theoretical_finishing_area),
         water_volume   |-> RatioOr1(profile.basic_dimensions.water_volume, theoretical_water_volume)]

-----------------------------------------------------------------------------
(* app.py: geometry.  length, width, depth, wall_thickness are numbers in  *)
(* millimetres                                                             *)

NoCorrection ==
    [water_surface |-> R(1), perimeter |-> R(1), wall_area |-> R(1),
     finishing_area |-> R(1), water_volume |-> R(1)]

(* Lines 53-96 and 117-132: the dimensions before the correction, under   *)
(* the keys of raw_dims                                                    *)
uncorrected_dims(length_m, width_m, depth_m, wall_thickness_m) ==
    LET outer_length_m == RAdd(length_m, RMul(R(2), wall_thickness_m))
        outer_width_m  == RAdd(width_m, RMul(R(2), wall_thickness_m))
        inner_perimeter == RMul(R(2), RAdd(length_m, width_m))
        water_surface == RMul(length_m, width_m)
        wall_area == RMul(inner_perimeter, depth_m)
        bottom_concrete_volume == RMul(RMul(outer_length_m, outer_width_m), wall_thickness_m)
        walls_concrete_volume == RMul(RMul(inner_perimeter, depth_m), wall_thickness_m)
        pit_length == RAdd(length_m, RMul(R(2), RAdd(wall_thickness_m, Frac(55, 100))))
        pit_width  == RAdd(width_m, RMul(R(2), RAdd(wall_thickness_m, Frac(55, 100))))
        pit_depth == RAdd(RAdd(depth_m, wall_thickness_m), Frac(2, 10))
    IN  [water_surface |-> water_surface,
         perimeter |-> inner_perimeter,
         wall_area |-> wall_area,
         finishing_area |-> RAdd(water_surface, wall_area),
         water_volume |-> RMul(water_surface, depth_m),
         concrete_volume |-> RAdd(bottom_concrete_volume, walls_concrete_volume),
         earth_volume |-> RMul(RMul(pit_length, pit_width), pit_depth),
         outer_length |-> outer_length_m,
         outer_width |-> outer_width_m,
         outer_perimeter |-> RMul(R(2), RAdd(outer_length_m, outer_width_m)),
         pit_area |-> RMul(pit_length, pit_width),
         pit_length |-> pit_length,
         pit_width |-> pit_width,
         pit_depth |-> pit_depth]

(* A correction in which the finishing area is the sum of the corrected    *)
(* water surface and the corrected wall area                               *)
corrected_dims_summed(dims, correction_factors) ==
    LET cf == IF correction_factors = None THEN NoCorrection ELSE correction_factors
    IN  [dims EXCEPT
            !.water_surface = RMul(@, DictGet(cf, "water_surface", R(1))),
            !.perimeter = RMul(@, DictGet(cf, "perimeter", R(1))),
            !.wall_area = RMul(@, DictGet(cf, "wall_area", R(1))),
            !.finishing_area = RAdd(RMul(dims.water_surface, DictGet(cf, "water_surface", R(1))),
                                    RMul(dims.wall_area, DictGet(cf, "wall_area", R(1)))),
            !.water_volume = RMul(@, DictGet(cf, "water_volume", R(1)))]

(* Lines 99-114: the correction of five of the dimensions *)
corrected_dims(dims, correction_factors) ==
    LET cf == IF correction_factors = None THEN NoCorrection ELSE correction_factors
    IN  [dims EXCEPT
            !.water_surface = RMul(@, DictGet(cf, "water_surface", R(1))),
            !.perimeter = RMul(@, DictGet(cf, "perimeter", R(1))),
            !.wall_area = RMul(@, DictGet(cf, "wall_area", R(1))),
            !.finishing_area = RMul(@, DictGet(cf, "finishing_area", R(1))),
            !.water_volume = RMul(@, DictGet(cf, "water_volume", R(1)))]

(* Lines 135-148: the returned dict *)
basic_dimensions_dict(length_m, width_m, depth_m, raw_dims) ==
    [Glubina |-> Fmt(RMul(depth_m, R(1000)), 0, "mm"),
     Dlina_vnutrennyaya |-> Fmt(RMul(length_m, R(1000)), 0, "mm"),
     Shirina_vnutrennyaya |-> Fmt(RMul(width_m, R(1000)), 0, "mm"),
     Ploshchad_vodnogo_zerkala |-> Fmt(raw_dims.water_surface, 1, "m2"),
     Perimetr |-> Fmt(raw_dims.perimeter, 1, "m/p"),
     Ploshchad_sten |-> Fmt(raw_dims.wall_area, 1, "m2"),
     Ploshchad_otdelki |-> Fmt(raw_dims.finishing_area, 1, "m2"),
     Obem_vody |-> Fmt(raw_dims.water_volume, 1, "m3"),
     Obem_betona |-> Fmt(raw_dims.concrete_volume, 1, "m3"),
     Obem_zemlyanyh_rabot |-> Fmt(raw_dims.earth_volume, 1, "m3"),
     Obshchaya_ploshchad |-> Fmt(raw_dims.finishing_area, 1, "m2"),
     _raw |-> raw_dims]

(* Lines 53-148, the dimensions in metres *)
basic_dimensions_in_metres(length_m, width_m, depth_m, wall_thickness_m, correction_factors) ==
    basic_dimensions_dict(length_m, width_m, depth_m,
        corrected_dims(uncorrected_dims(length_m, width_m, depth_m, wall_thickness_m),
                       correction_factors))

calculate_basic_dimensions(length, width, depth, wall_thickness, correction_factors) ==
    basic_dimensions_in_metres(RDiv(length, R(1000)), RDiv(width, R(1000)), RDiv(depth, R(1000)),
                               RDiv(wall_thickness, R(1000)), correction_factors)

(* Lines 174-204: the returned dict *)
earthworks_dict(pit_length, pit_width, pit_depth, pit_volume, pool_volume) ==
    [Glubina_kotlovana |-> Fmt(RMul(pit_depth, R(1000)), 0, "mm"),
     Dlina_kotlovana |-> Fmt(RMul(pit_length, R(1000)), 0, "mm"),
     Shirina_kotlovana |-> Fmt(RMul(pit_width, R(1000)), 0, "mm"),
     Ploshchad_kotlovana |-> Fmt(RMul(pit_length, pit_width), 1, "m2"),
     Obem_zemlyanyh_rabot |-> Fmt(pit_volume, 1, "m3"),
     Obem_obratnoy_zasypki |-> Fmt(RSub(pit_volume, pool_volume), 1, "m3"),
     Obem_vyvoza_grunta |-> Fmt(pit_volume, 1, "m3"),
     Kolichestvo_KAMAZov |-> FmtInt(Ceil(RDiv(pit_volume, R(7))))]

earthworks_of_pit(pit_length, pit_width, pit_depth, pool_volume) ==
    earthworks_dict(pit_length, pit_width, pit_depth,
                    RMul(RMul(pit_length, pit_width), pit_depth), pool_volume)

(* The earthworks of a pit with the 550 mm of working space that           *)
(* calculate_basic_dimensions takes                                        *)
earthworks_with_basic_margin(length_m, width_m, depth_m, wall_thickness_m) ==
    LET outer_length == RAdd(length_m, RMul(R(2), wall_thickness_m))
        outer_width  == RAdd(width_m, RMul(R(2), wall_thickness_m))
        outer_depth  == RAdd(depth_m, wall_thickness_m)
    IN  earthworks_of_pit(RAdd(length_m, RMul(R(2), RAdd(wall_thickness_m, Frac(55, 100)))),
                          RAdd(width_m, RMul(R(2), RAdd(wall_thickness_m, Frac(55, 100)))),
                          RAdd(RAdd(depth_m, wall_thickness_m), Frac(2, 10)),
                          RMul(RMul(outer_length, outer_width), outer_depth))

earthworks_in_metres(length_m, width_m, depth_m, wall_thickness_m) ==
    LET outer_length == RAdd(length_m, RMul(R(2), wall_thickness_m))
        outer_width  == RAdd(width_m, RMul(R(2), wall_thickness_m))
        outer_depth  == RAdd(depth_m, wall_thickness_m)
    IN  earthworks_of_pit(RAdd(length_m, RMul(R(2), RAdd(wall_thickness_m, Frac(8, 10)))),
                          RAdd(width_m, RMul(R(2), RAdd(wall_thickness_m, Frac(8, 10)))),
                          RAdd(RAdd(depth_m, wall_thickness_m), Frac(2, 10)),
                          RMul(RMul(outer_length, outer_width), outer_depth))

calculate_earthworks(length, width, depth, wall_thickness) ==
    earthworks_in_metres(RDiv(length, R(1000)), RDiv(width, R(1000)), RDiv(depth, R(1000)),
                         RDiv(wall_thickness, R(1000)))

concrete_works_dict(base_area, base_concrete_volume, walls_concrete_volume) ==
    [Obem_shchebnya |-> Fmt(RMul(base_area, Frac(1, 10)), 1, "m3"),
     Obem_betona_osnovaniya |-> Fmt(base_concrete_volume, 1, "m3"),
     Obem_betona_sten |-> Fmt(walls_concrete_volume, 1, "m3"),
     Obshchiy_obem_betona |-> Fmt(RAdd(base_concrete_volume, walls_concrete_volume), 1, "m3"),
     Ves_armatury |-> Fmt(RMul(RAdd(base_concrete_volume, walls_concrete_volume), R(100)), 0, "kg")]

concrete_works_in_metres(length_m, width_m, depth_m, wall_thickness_m) ==
    LET outer_length == RAdd(length_m, RMul(R(2), wall_thickness_m))
        outer_width  == RAdd(width_m, RMul(R(2), wall_thickness_m))
        base_area == RMul(outer_length, outer_width)
        inner_perimeter == RMul(R(2), RAdd(length_m, width_m))
    IN  concrete_works_dict(base_area, RMul(base_area, wall_thickness_m),
                            RMul(RMul(inner_perimeter, depth_m), wall_thickness_m))

calculate_concrete_works(length, width, depth, wall_thickness) ==
    concrete_works_in_metres(RDiv(length, R(1000)), RDiv(width, R(1000)), RDiv(depth, R(1000)),
                             RDiv(wall_thickness, R(1000)))

formwork_dict(outer_formwork_area, inner_formwork_area, total_formwork_area, reinforcement_area) ==
    [Ploshchad_naruzhnoy_opalubki |-> Fmt(outer_formwork_area, 1, "m2"),
     Ploshchad_vnutrenney_opalubki |-> Fmt(inner_formwork_area, 1, "m2"),
     Obshchaya_ploshchad_opalubki |-> Fmt(total_formwork_area, 1, "m2"),
     Kolichestvo_listov_fanery |->
        FmtInt(Ceil(RMul(RDiv(total_formwork_area, Frac(225, 100)), Frac(12, 10)))),
     Ves_armatury |-> Fmt(RMul(reinforcement_area, R(5)), 0, "kg"),
     Dlina_brusa_50x100 |-> Fmt(RMul(total_formwork_area, R(3)), 0, "m")]

formwork_of_areas(outer_formwork_area, inner_formwork_area, water_surface) ==
    formwork_dict(outer_formwork_area, inner_formwork_area,
                  RAdd(outer_formwork_area, inner_formwork_area),
                  RAdd(inner_formwork_area, water_surface))

formwork_in_metres(length_m, width_m, depth_m, wall_thickness_m) ==
    LET outer_length == RAdd(length_m, RMul(R(2), wall_thickness_m))
        outer_width  == RAdd(width_m, RMul(R(2), wall_thickness_m))
        outer_perimeter == RMul(R(2), RAdd(outer_length, outer_width))
        outer_formwork_height == RAdd(depth_m, wall_thickness_m)
        inner_perimeter == RMul(R(2), RAdd(length_m, width_m))
    IN  formwork_of_areas(RMul(outer_perimeter, outer_formwork_height),
                          RMul(inner_perimeter, depth_m),
                          RMul(length_m, width_m))

calculate_formwork(length, width, depth, wall_thickness) ==
    formwork_in_metres(RDiv(length, R(1000)), RDiv(width, R(1000)), RDiv(depth, R(1000)),
                       RDiv(wall_thickness, R(1000)))

-----------------------------------------------------------------------------
(* app.py: costs                                                           *)

(* f"{x:,.0f} rub." *)
Rub(x) == Fmt(x, 0, "rub")

(* The numbers calculate_finishing_cost extracts from basic_dims.  The     *)
(* values under _raw are numbers; every other value of basic_dims is a     *)
(* formatted string, so of the isinstance branches the str one is taken.   *)
(* "Ploshchad_pod_otdelku" is the key the function looks for; the key      *)
(* calculate_basic_dimensions writes is "Ploshchad_otdelki".               *)
finishing_extract(basic_dims) ==
    LET has_raw == "_raw" \in DOMAIN basic_dims
        raw_data == basic_dims._raw
        fa0 == DictGet(raw_data, "Ploshchad_pod_otdelku", R(0))
        fa1 == IF ~has_raw THEN R(0)
               ELSE IF RIsZero(fa0) THEN DictGet(raw_data, "finishing_area", R(0)) ELSE fa0
        pe0 == DictGet(raw_data, "Perimetr", R(0))
        pe1 == IF ~has_raw THEN R(0)
               ELSE IF RIsZero(pe0) THEN DictGet(raw_data, "perimeter", R(0)) ELSE pe0
        fa2 == IF "Ploshchad_pod_otdelku" \in DOMAIN basic_dims
               THEN ParseNumber(basic_dims.Ploshchad_pod_otdelku)
               ELSE IF "finishing_area" \in DOMAIN basic_dims
               THEN ParseNumber(basic_dims.finishing_area)
               ELSE fa1
        pe2 == IF "Perimetr" \in DOMAIN basic_dims
               THEN ParseNumber(basic_dims.Perimetr)
               ELSE IF "perimeter" \in DOMAIN basic_dims
               THEN ParseNumber(basic_dims.perimeter)
               ELSE pe1
    IN  IF RIsZero(fa1)
        THEN [finishing_area |-> fa2, perimeter |-> pe2]
        ELSE [finishing_area |-> fa1, perimeter |-> pe1]

(* Lines 431-473: the kp1 branch *)
finishing_cost_kp1(profile, finishing_area, perimeter) ==
    LET ok == /\ "kp_params" \in DOMAIN profile
              /\ "materials_prices" \in DOMAIN profile
        lining_area == IF "lining_area" \in DOMAIN profile.kp_params
                       THEN R(profile.kp_params.lining_area) ELSE finishing_area
        lining_price == DictGet(profile, "lining_price", 5400)
        coping_stone_count == DictGet(profile.kp_params, "coping_stone_count",
                                      Trunc(RDiv(perimeter, Frac(5, 10))))
        coping_stone_price == DictGet(profile.materials_prices, "coping_stone", 2600)
        lining_cost == IF ok THEN RMul(lining_area, R(lining_price))
                       ELSE RMul(finishing_area, R(5400))
        coping_stone_cost == IF ok THEN R(coping_stone_count * coping_stone_price)
                             ELSE RMul(perimeter, R(5200))
        work_cost == R(0)
        total_cost == RAdd(lining_cost, coping_stone_cost)
    IN  [area |-> finishing_area,
         perimeter |-> perimeter,
         lining |-> [cost |-> lining_cost, cost_str |-> Rub(lining_cost)],
         coping_stone |-> [cost |-> coping_stone_cost, total |-> coping_stone_cost,
                           cost_str |-> Rub(coping_stone_cost)],
         material_cost |-> lining_cost,
         material_cost_str |-> Rub(lining_cost),
         work_cost |-> work_cost,
         work_cost_str |-> Rub(work_cost),
         total_cost |-> total_cost,
         total_cost_str |-> Rub(total_cost)]

(* Lines 506-534: the dict the kp2 branch returns *)
finishing_cost_kp2_dict(finishing_area, perimeter, tile_cost, grout_cost, adhesive_cost, waterproofing_cost, laying_cost, grouting_cost) ==
    LET materials_cost == RAdd(RAdd(tile_cost, grout_cost), RAdd(adhesive_cost, waterproofing_cost))
        work_cost == RAdd(laying_cost, grouting_cost)
        total_cost == RAdd(materials_cost, work_cost)
    IN  [area |-> finishing_area,
         perimeter |-> perimeter,
         materials |-> [Plitka |-> Rub(tile_cost), Zatirka |-> Rub(grout_cost),
                        Kley_dlya_plitki |-> Rub(adhesive_cost),
                        Gidroizolyatsiya |-> Rub(waterproofing_cost)],
         works |-> [Ukladka_plitki |-> Rub(laying_cost), Zatirka_shvov |-> Rub(grouting_cost)],
         material_cost |-> materials_cost,
         material_cost_str |-> Rub(materials_cost),
         work_cost |-> work_cost,
         work_cost_str |-> Rub(work_cost),
         total_cost |-> total_cost,
         total_cost_str |-> Rub(total_cost)]

(* Lines 476-534: the kp2 branch *)
finishing_cost_kp2(profile, finishing_area, perimeter) ==
    LET materials_prices == DictGet(profile, "materials_prices", <<>>)
        works_prices == DictGet(profile, "works_prices", <<>>)
    IN  finishing_cost_kp2_dict(finishing_area, perimeter,
            RMul(finishing_area, R(DictGet(materials_prices, "tile", 2500))),
            RMul(finishing_area, R(DictGet(materials_prices, "grout", 300))),
            RMul(finishing_area, R(DictGet(materials_prices, "tile_adhesive", 400))),
            RMul(finishing_area, R(DictGet(materials_prices, "waterproofing", 800))),
            RMul(finishing_area, R(DictGet(works_prices, "tile_laying", 2500))),
            RMul(finishing_area, R(DictGet(works_prices, "grouting", 300))))

(* Lines 536-559: the branch of every other profile *)
finishing_cost_other(finishing_area, perimeter) ==
    LET materials_cost == RMul(finishing_area, R(3000))
        work_cost == RMul(finishing_area, R(2000))
        total_cost == RAdd(materials_cost, work_cost)
    IN  [area |-> finishing_area,
         perimeter |-> perimeter,
         material_cost |-> materials_cost,
         material_cost_str |-> Rub(materials_cost),
         work_cost |-> work_cost,
         work_cost_str |-> Rub(work_cost),
         total_cost |-> total_cost,
         total_cost_str |-> Rub(total_cost)]

(* Lines 337-343: the profile id *)
finishing_profile_id(profile_id0) ==
    LET id1 == IF IsPyDict(profile_id0) THEN DictGet(profile_id0.d, "id", Str("kp1")) ELSE profile_id0
    IN  IF ~IsPyStr(id1) THEN Str("kp1") ELSE id1

finishing_cost_of(profile, profile_id, extracted) ==
    IF profile_id.s = "kp1"
    THEN finishing_cost_kp1(profile, extracted.finishing_area, extracted.perimeter)
    ELSE IF profile_id.s = "kp2"
    THEN finishing_cost_kp2(profile, extracted.finishing_area, extracted.perimeter)
    ELSE finishing_cost_other(extracted.finishing_area, extracted.perimeter)

calculate_finishing_cost(P, basic_dims, profile_id0) ==
    finishing_cost_of(get_profile(P, finishing_profile_id(profile_id0)),
                      finishing_profile_id(profile_id0), finishing_extract(basic_dims))

(* f"{n:,} rub." of an int *)
RubInt(n) == [v |-> n, dec |-> 0, unit |-> "rub"]

(* profile_id == "kp1" where profile_id may be any Python value *)
IsId(profile_id, s) == IsPyStr(profile_id) /\ profile_id.s = s

calculate_materials_cost(P, basic_dims, profile_id) ==
    LET profile == get_profile(P, profile_id)
        total_materials_cost == profile.costs.materials_total
        materials ==
            IF IsId(profile_id, "kp1") THEN
                [Zemlyanye_raboty |-> RubInt(48800), Transport |-> RubInt(97500),
                 Pesok_i_shcheben |-> RubInt(17300), Materialy_opalubki |-> RubInt(144500),
                 Armatura_i_soputstvuyushchie |-> RubInt(177000),
                 Beton_s_dostavkoy |-> RubInt(169750),
                 Vspomogatelnye_materialy |-> RubInt(162026)]
            ELSE IF IsId(profile_id, "kp2") THEN
                [Stroitelnye_materialy |-> RubInt(275000), Otdelochnye_materialy |-> RubInt(180000),
                 Vspomogatelnye_materialy |-> RubInt(128398)]
            ELSE IF IsId(profile_id, "kp3") THEN
                [Stroitelnye_materialy |-> RubInt(180000), Otdelochnye_materialy |-> RubInt(90000),
                 Vspomogatelnye_materialy |-> RubInt(50631)]
            ELSE <<>>
    IN  [materials |-> materials,
         total_cost |-> total_materials_cost,
         total_cost_str |-> RubInt(total_materials_cost)]

calculate_works_cost(P, basic_dims, profile_id) ==
    LET profile == get_profile(P, profile_id)
        total_works_cost == profile.costs.works_total
        works ==
            IF IsId(profile_id, "kp1") THEN
                [Podgotovitelnye_raboty |-> RubInt(73000), Zemlyanye_raboty |-> RubInt(29000),
                 Betonirovanie |-> RubInt(177600), Opalubka_i_armirovanie |-> RubInt(204260),
                 Montazh_zakladnyh |-> RubInt(40500), Obratnaya_zasypka |-> RubInt(50400),
                 Otdelochnye_raboty |-> RubInt(252100), Montazh_bortovogo_kamnya |-> RubInt(65000),
                 Razgruzka_materialov |-> RubInt(30000)]
            ELSE IF IsId(profile_id, "kp2") THEN
                [Podgotovitelnye_i_zemlyanye_raboty |-> RubInt(120000),
                 Betonnye_raboty |-> RubInt(180000), Opalubka_i_armirovanie |-> RubInt(105000),
                 Otdelochnye_raboty |-> RubInt(170690), Montazh_bortovogo_kamnya |-> RubInt(40000)]
            ELSE IF IsId(profile_id, "kp3") THEN
                [Podgotovitelnye_i_zemlyanye_raboty |-> RubInt(90000),
                 Betonnye_raboty |-> RubInt(104284), Opalubka_i_armirovanie |-> RubInt(90000),
                 Otdelochnye_raboty |-> RubInt(110000)]
            ELSE <<>>
    IN  [works |-> works,
         total_cost |-> total_works_cost,
         total_cost_str |-> RubInt(total_works_cost)]

(* max(a, b) of two ints *)
Max(a, b) == IF a < b THEN b ELSE a

Item(name, unit, qty, price) == [name |-> name, unit |-> unit, qty |-> qty, price |-> R(price)]

(* Lines 933-1036 *)
kp_equipment_items(perimeter_ratio) ==
    << Item("Filter unit Hayward PWL D611", "sht", R(1), 79975),
       Item("Skimmer Aquaviva Wide EM0020V", "sht", R(Max(1, Round(perimeter_ratio))), 9115),
       Item("Wall nozzle Aquaviva EM4414", "sht",
            R(Max(2, Round(RMul(perimeter_ratio, R(2))))), 1979),
       Item("Bottom drain Aquaviva EM2837", "sht", R(1), 4727),
       Item("LED projector Aquaviva LED003", "sht", R(2), 26129),
       Item("Transformer Aquant 105W-12V", "sht", R(1), 6256),
       Item("Junction box Aquaviva EM2823", "sht", R(2), 1078),
       Item("Quartz sand 25kg Aquaviva", "sht", R(6), 1152),
       Item("Pool start-up chemistry set", "kompl", R(1), 12318),
       Item("Pool care set", "kompl", R(1), 17580),
       Item("Installation (pipes, valves, fittings)", "kompl", R(1), 102000),
       Item("Electrical control panel", "kompl", R(1), 48000),
       Item("Heat exchanger Elecro G2 HE 49 kW", "sht", R(1), 84800),
       Item("Heat exchanger Elecro 18 kW", "sht", R(1), 33200),
       Item("Disinfection unit Sonda Salt 20", "sht", R(1), 139000),
       Item("Dosing station Bayrol Pool Manager PRO", "sht", R(1), 186000),
       Item("Equipment mounting and start-up", "usluga", R(1), 186000) >>

(* Lines 1050-1093 *)
kp_materials_items(surface_ratio, volume_ratio, area_ratio) ==
    << Item("Excavation by machine", "m3", R(Round(RMul(R(122), volume_ratio))), 400),
       Item("Soil removal", "KamAZ", R(Max(1, Round(RMul(R(15), volume_ratio)))), 6500),
       Item("Sand with delivery 6 m3", "sht", R(Max(1, Round(volume_ratio))), 7600),
       Item("Gravel with delivery 10 t", "sht", R(Max(1, Round(volume_ratio))), 9700),
       Item("Concrete M200 with delivery", "m3", Round1(RMul(Frac(36, 10), surface_ratio)), 5750),
       Item("Concrete M300 with delivery", "m3", Round1(RMul(Frac(146, 10), volume_ratio)), 6650),
       Item("Rebar 10 mm", "t", Round1(RMul(Frac(18, 10), area_ratio)), 65000) >>

(* Lines 1096-1133 *)
kp_works_items(water_surface, wall_area, finishing_area, surface_ratio, volume_ratio) ==
    << Item("Pool layout and levelling", "m2", R(Round(RMul(water_surface, Frac(17, 10)))), 600),
       Item("Rebar tying", "m2", R(Round(finishing_area)), 1750),
       Item("Formwork", "m2", R(Round(RMul(wall_area, Frac(22, 10)))), 550),
       Item("Pouring M200 base", "m3", Round1(RMul(Frac(36, 10), surface_ratio)), 1200),
       Item("Pouring M300 bowl", "m3", Round1(RMul(Frac(146, 10), volume_ratio)), 3500),
       Item("Unloading of materials", "usluga", R(1), 30000) >>

(* The returned dict with a total that leaves the equipment out *)
kp_items_dict_without_equipment(equipment_items, equipment_total, materials_items, materials_total, works_items, works_total) ==
    [equipment_items |-> equipment_items,
     equipment_total |-> equipment_total,
     materials_items |-> materials_items,
     materials_total |-> materials_total,
     works_items |-> works_items,
     works_total |-> works_total,
     total_cost |-> materials_total + works_total]

(* Lines 1136-1146: the returned dict *)
kp_items_dict(equipment_items, equipment_total, materials_items, materials_total, works_items, works_total) ==
    [equipment_items |-> equipment_items,
     equipment_total |-> equipment_total,
     materials_items |-> materials_items,
     materials_total |-> materials_total,
     works_items |-> works_items,
     works_total |-> works_total,
     total_cost |-> equipment_total + materials_total + works_total]

(* Lines 925-1146: the scales, the totals and the items *)
kp_items_of_ratios(profile, water_surface, wall_area, finishing_area, surface_ratio, perimeter_ratio, volume_ratio, area_ratio) ==
    LET reference_materials == profile.costs.materials_total
        reference_works == profile.costs.works_total
        reference_equipment == profile.costs.equipment_total
        materials_scale ==
            RAdd(RAdd(RMul(Frac(4, 10), surface_ratio), RMul(Frac(4, 10), volume_ratio)),
                 RMul(Frac(2, 10), perimeter_ratio))
        works_scale ==
            RAdd(RAdd(RMul(Frac(5, 10), area_ratio), RMul(Frac(3, 10), volume_ratio)),
                 RMul(Frac(2, 10), perimeter_ratio))
        equipment_scale ==
            RAdd(RAdd(RMul(Frac(2, 10), volume_ratio), RMul(Frac(1, 10), perimeter_ratio)),
                 Frac(7, 10))
    IN  kp_items_dict(kp_equipment_items(perimeter_ratio),
                      RoundScaled(reference_equipment, equipment_scale),
                      kp_materials_items(surface_ratio, volume_ratio, area_ratio),
                      RoundScaled(reference_materials, materials_scale),
                      kp_works_items(water_surface, wall_area, finishing_area,
                                     surface_ratio, volume_ratio),
                      RoundScaled(reference_works, works_scale))

(* Lines 908-921: the areas, the volume and their ratios to the reference  *)
(* values 32.0, 26.0, 48.0 and 71.6                                        *)
kp_items_of_dims(profile, water_surface, perimeter, wall_area, depth_m) ==
    kp_items_of_ratios(profile, water_surface, wall_area, RAdd(water_surface, wall_area),
                       RDiv(water_surface, Frac(320, 10)),
                       RDiv(perimeter, Frac(260, 10)),
                       RDiv(RMul(water_surface, depth_m), Frac(480, 10)),
                       RDiv(RAdd(water_surface, wall_area), Frac(716, 10)))

(* Lines 905-907 *)
kp_items_in_metres(profile, length_m, width_m, depth_m) ==
    kp_items_of_dims(profile, RMul(length_m, width_m), RMul(R(2), RAdd(length_m, width_m)),
                     RMul(RMul(R(2), RAdd(length_m, width_m)), depth_m), depth_m)

calculate_kp_items(P, length, width, depth, pool_type, profile_id) ==
    kp_items_in_metres(get_profile(P, profile_id), RDiv(underflowed(length), R(1000)),
                       RDiv(underflowed(width), R(1000)), RDiv(underflowed(depth), R(1000)))

-----------------------------------------------------------------------------
(* app.py: calculate                                                       *)

(* An error message: the fixed text and the value formatted into it *)
ErrorBody(msg, detail) == [error |-> [msg |-> msg, detail |-> detail]]

ErrorResult(msg) == ErrorBody(msg, Str(""))

IsError(res) == "error" \in DOMAIN res

(* The string the code parses back out of every formatted entry of         *)
(* basic_dims, stored under _raw in place of the numbers that              *)
(* calculate_basic_dimensions put there                                    *)
reparse_raw(basic_dims) ==
    [key \in DOMAIN basic_dims \ {"_raw"} |-> ParseNumber(basic_dims[key])]

(* Lines 1770-1777: the profile id *)
calculate_profile_id(profile_id0) ==
    LET id1 == IF IsPyDict(profile_id0) THEN DictGet(profile_id0.d, "id", Str("kp1")) ELSE profile_id0
    IN  IF ~Truthy(id1) \/ ~IsPyStr(id1) THEN Str("kp1") ELSE id1

(* Lines 1809-1829: basic_dims with _raw replaced *)
with_reparsed_raw(basic_dims) == [basic_dims EXCEPT !._raw = reparse_raw(basic_dims)]

(* Lines 1795-1829: basic_dims as the later steps of calculate see it *)
calculate_basic_dims(P, length, width, depth, wall_thickness, profile_id) ==
    with_reparsed_raw(
        calculate_basic_dimensions(length, width, depth, wall_thickness,
            get_dimensions_correction_factor(P, profile_id,
                [length |-> length, width |-> width, depth |-> depth,
                 wall_thickness |-> wall_thickness])))

(* Lines 1876-1880 *)
calculate_pool_type(profile_id) ==
    IF profile_id.s = "kp2" THEN "tile"
    ELSE IF profile_id.s = "kp3" THEN "mosaic" ELSE "liner"

(* A result whose materials total adds the concrete of the bowl, at the    *)
(* profile's concrete price                                                *)
calculate_result_with_concrete(P, length, width, depth, wall_thickness, profile_id, basic_dims, kp_items) ==
    LET materials_total ==
            DictGet(kp_items, "materials_total", 0)
                + Round(RMul(ParseNumber(basic_dims.Obem_betona),
                             R(get_profile(P, profile_id).concrete_price)))
        works_total == DictGet(kp_items, "works_total", 0)
        equipment_total == DictGet(kp_items, "equipment_total", 0)
        total_cost == materials_total + works_total + equipment_total
    IN  [basic_dimensions |-> basic_dims,
         earthworks |-> calculate_earthworks(length, width, depth, wall_thickness),
         concrete_works |-> calculate_concrete_works(length, width, depth, wall_thickness),
         formwork |-> calculate_formwork(length, width, depth, wall_thickness),
         finishing_cost |-> calculate_finishing_cost(P, basic_dims, profile_id),
         materials_cost |-> calculate_materials_cost(P, basic_dims, profile_id),
         works_cost |-> calculate_works_cost(P, basic_dims, profile_id),
         kp_items |-> kp_items,
         costs |-> [materials_total |-> materials_total, works_total |-> works_total,
                    equipment_total |-> equipment_total, total |-> total_cost],
         pool_data |-> [profile |-> [id |-> profile_id.s, name |-> get_profile(P, profile_id).name],
                        dimensions |-> [length |-> length, width |-> width, depth |-> depth,
                                        wall_thickness |-> wall_thickness]]]

(* Lines 1832-1964: the remaining parts and the returned dict *)
calculate_result(P, length, width, depth, wall_thickness, profile_id, basic_dims, kp_items) ==
    LET materials_total == DictGet(kp_items, "materials_total", 0)
        works_total == DictGet(kp_items, "works_total", 0)
        equipment_total == DictGet(kp_items, "equipment_total", 0)
        total_cost == materials_total + works_total + equipment_total
    IN  [basic_dimensions |-> basic_dims,
         earthworks |-> calculate_earthworks(length, width, depth, wall_thickness),
         concrete_works |-> calculate_concrete_works(length, width, depth, wall_thickness),
         formwork |-> calculate_formwork(length, width, depth, wall_thickness),
         finishing_cost |-> calculate_finishing_cost(P, basic_dims, profile_id),
         materials_cost |-> calculate_materials_cost(P, basic_dims, profile_id),
         works_cost |-> calculate_works_cost(P, basic_dims, profile_id),
         kp_items |-> kp_items,
         costs |-> [materials_total |-> materials_total, works_total |-> works_total,
                    equipment_total |-> equipment_total, total |-> total_cost],
         pool_data |-> [profile |-> [id |-> profile_id.s, name |-> get_profile(P, profile_id).name],
                        dimensions |-> [length |-> length, width |-> width, depth |-> depth,
                                        wall_thickness |-> wall_thickness]]]

(* Lines 1779-1964, profile_id a string *)
calculate_for_profile(P, length, width, depth, wall_thickness, profile_id) ==
    calculate_result(P, length, width, depth, wall_thickness, profile_id,
        calculate_basic_dims(P, length, width, depth, wall_thickness, profile_id),
        calculate_kp_items(P, length, width, depth, calculate_pool_type(profile_id), profile_id))

(* x >= 0 where the code has x > 0 *)
all_non_negative(length, width, depth, wall_thickness) ==
    /\ RPos(length) \/ RIsZero(length)
    /\ RPos(width) \/ RIsZero(width)
    /\ RPos(depth) \/ RIsZero(depth)
    /\ RPos(wall_thickness) \/ RIsZero(wall_thickness)

(* Line 1767: all(isinstance(x, (int, float)) and x > 0 for x in [...]) *)
all_positive(length, width, depth, wall_thickness) ==
    RPos(length) /\ RPos(width) /\ RPos(depth) /\ RPos(wall_thickness)

(* Lines 1832-1836: with an infinite dimension the pit volume is infinite,  *)
(* math.ceil of it raises OverflowError in calculate_earthworks (line 193) *)
(* and calculate returns the error                                         *)
earthworks_overflow(length, width, depth, wall_thickness) ==
    IsInf(length) \/ IsInf(width) \/ IsInf(depth) \/ IsInf(wall_thickness)

(* Lines 1957-1962: pool_data keeps the dimensions as they were passed *)
with_dimensions(res, length, width, depth, wall_thickness) ==
    [res EXCEPT !.pool_data.dimensions = [length |-> length, width |-> width, depth |-> depth,
                                          wall_thickness |-> wall_thickness]]

calculate(P, length, width, depth, wall_thickness, profile_id0) ==
    IF ~all_positive(length, width, depth, wall_thickness)
    THEN ErrorResult("All dimensions must be positive numbers")
    ELSE IF earthworks_overflow(length, width, depth, wall_thickness)
    THEN ErrorBody("Error calculating earthworks", Str("cannot convert float infinity to integer"))
    ELSE with_dimensions(
            calculate_for_profile(P, underflowed(length), underflowed(width), underflowed(depth),
                                  underflowed(wall_thickness), calculate_profile_id(profile_id0)),
            length, width, depth, wall_thickness)

-----------------------------------------------------------------------------
(* app.py: the HTTP routes.  data is the JSON body (request.get_json()):   *)
(* None or a Python value, an object being Dict(d) with d a function from  *)
(* the keys present to Python values                                       *)

Resp(status, body) == [status |-> status, body |-> body]

(* What "from kp_profiles import ..." binds in the namespace of app.py;    *)
(* reading any other global name raises NameError                          *)
app_imports == {"get_profile", "get_profiles_list", "get_dimensions_correction_factor"}

NameErrorBody(name) == ErrorBody("NameError: name is not defined", Str(name))

(* float(s) of the string literals that occur in requests *)
NumericLiterals == [s \in {"8000", "4000", "1500", "200"} |->
                        CASE s = "8000" -> R(8000) [] s = "4000" -> R(4000)
                          [] s = "1500" -> R(1500) [] s = "200" -> R(200)]

(* float(x): a number, or the exception raised *)
FloatOf(x) ==
    CASE x.t = "num" -> [ok |-> TRUE, q |-> x.q]
      [] x.t = "str" -> IF x.s \in DOMAIN NumericLiterals
                        THEN [ok |-> TRUE, q |-> NumericLiterals[x.s]]
                        ELSE [ok |-> FALSE, exc |-> "ValueError"]
      [] OTHER       -> [ok |-> FALSE, exc |-> "TypeError"]

required_params == <<"length", "width", "depth", "wall_thickness">>

(* The first index (in order) at which the sequence of booleans holds     *)
(* TRUE, or 0                                                              *)
FirstIndex(flags) ==
    IF \E i \in 1..Len(flags) : flags[i]
    THEN CHOOSE i \in 1..Len(flags) : flags[i] /\ \A j \in 1..(i - 1) : ~flags[j]
    ELSE 0

(* profile_id as calculate_route derives it from the body *)
route_profile_id(d) ==
    LET p0 == DictGet(d, "profile_id", PyNone)
        p1 == IF p0.t = "none" THEN DictGet(d, "profile", Str("kp1")) ELSE p0
        p2 == IF "pool_type" \in DOMAIN d /\ ~Truthy(p1)
              THEN IF IsId(d.pool_type, "liner") THEN Str("kp1")
                   ELSE IF IsId(d.pool_type, "tile") THEN Str("kp2")
                   ELSE IF IsId(d.pool_type, "mosaic") THEN Str("kp3")
                   ELSE p1
              ELSE p1
    IN  IF ~Truthy(p2) THEN Str("kp1") ELSE p2

(* Lines 1280-1286: the answer for what calculate returned *)
calculate_response(res) ==
    IF IsError(res) THEN Resp(400, [error |-> res.error]) ELSE Resp(200, res)

calculate_route(P, data) ==
    IF ~Truthy(data) THEN Resp(400, ErrorBody("No JSON data", Str("")))
    ELSE
    LET d == data.d
        missing == FirstIndex([i \in 1..Len(required_params) |-> required_params[i] \notin DOMAIN d])
        bad == FirstIndex([i \in 1..Len(required_params) |-> ~FloatOf(d[required_params[i]]).ok])
    IN  IF missing # 0 THEN Resp(400, ErrorBody("Missing parameter", Str(required_params[missing])))
        ELSE IF bad # 0 THEN
            IF FloatOf(d[required_params[bad]]).exc = "ValueError"
            THEN Resp(400, ErrorBody("Type conversion error", Str(required_params[bad])))
            ELSE Resp(500, ErrorBody("TypeError", Str(required_params[bad])))
        ELSE
            calculate_response(calculate(P, FloatOf(d.length).q, FloatOf(d.width).q,
                                         FloatOf(d.depth).q, FloatOf(d.wall_thickness).q,
                                         route_profile_id(d)))

(* float(data.get(key, 0)) *)
FloatOfGet(d, key) == FloatOf(DictGet(d, key, Num(R(0))))

(* profile_id not in PROFILES, for a profile_id taken from the request (an  *)
(* unhashable profile_id raises TypeError, which the routes answer like a  *)
(* miss, with another message)                                             *)
NotInProfiles(P, profile_id) == ~IsPyStr(profile_id) \/ profile_id.s \notin DOMAIN P

(* Lines 1565-1574: the answer for what calculate returned *)
generate_kp_response(res, customer, today) ==
    IF IsError(res) THEN Resp(400, [error |-> res.error])
    ELSE Resp(200, [k \in DOMAIN res \cup {"customer", "generation_date"} |->
                        IF k = "customer" THEN customer
                        ELSE IF k = "generation_date" THEN today
                        ELSE res[k]])

generate_kp(P, data, today) ==
    IF ~Truthy(data) THEN Resp(400, ErrorBody("No data received", Str("")))
    ELSE
    LET d == data.d
        bad == FirstIndex([i \in 1..Len(required_params) |-> ~FloatOfGet(d, required_params[i]).ok])
        length == FloatOfGet(d, "length").q
        width == FloatOfGet(d, "width").q
        depth == FloatOfGet(d, "depth").q
        wall_thickness == FloatOfGet(d, "wall_thickness").q
        profile_id == DictGet(d, "profile_id", Str("kp1"))
        customer == DictGet(d, "customer", EmptyDict)
        missing_fields == {f \in {"name", "address", "phone"} : f \notin DOMAIN customer.d}
    IN  IF bad # 0 THEN Resp(400, ErrorBody(FloatOfGet(d, required_params[bad]).exc, Str(required_params[bad])))
        ELSE IF ~(RPos(length) /\ RPos(width) /\ RPos(depth) /\ RPos(wall_thickness))
        THEN Resp(400, ErrorBody("All parameters must be positive numbers", Str("")))
        ELSE IF "PROFILES" \notin app_imports THEN Resp(400, NameErrorBody("PROFILES"))
        ELSE IF NotInProfiles(P, profile_id) THEN Resp(400, ErrorBody("Unknown KP profile", profile_id))
        ELSE IF missing_fields # {}
        THEN Resp(400, ErrorBody("Missing required customer data", [t |-> "fields", s |-> missing_fields]))
        ELSE generate_kp_response(calculate(P, length, width, depth, wall_thickness, profile_id),
                                  customer, today)

get_profiles(P) == Resp(200, [profiles |-> get_profiles_list(P)])

(* profile_id is the <profile_id> part of the URL: a string *)
get_profile_route(P, profile_id) ==
    IF "PROFILES" \notin app_imports THEN Resp(400, NameErrorBody("PROFILES"))
    ELSE IF profile_id \notin DOMAIN P
    THEN Resp(400, ErrorBody("Unknown KP profile", Str(profile_id)))
    ELSE Resp(200, [profile |-> get_profile(P, Str(profile_id))])

dimension_params == <<"length", "width", "depth">>

get_dimensions_correction(P, data) ==
    IF ~Truthy(data) THEN Resp(400, ErrorBody("No data received", Str("")))
    ELSE
    LET d == data.d
        bad == FirstIndex([i \in 1..Len(dimension_params) |-> ~FloatOfGet(d, dimension_params[i]).ok])
        length == FloatOfGet(d, "length").q
        width == FloatOfGet(d, "width").q
        depth == FloatOfGet(d, "depth").q
        profile_id == DictGet(d, "profile_id", Str("kp1"))
    IN  IF bad # 0 THEN Resp(400, ErrorBody(FloatOfGet(d, dimension_params[bad]).exc, Str(dimension_params[bad])))
        ELSE IF ~(RPos(length) /\ RPos(width) /\ RPos(depth))
        THEN Resp(400, ErrorBody("All parameters must be positive numbers", Str("")))
        ELSE IF "PROFILES" \notin app_imports THEN Resp(400, NameErrorBody("PROFILES"))
        ELSE IF NotInProfiles(P, profile_id) THEN Resp(400, ErrorBody("Unknown KP profile", profile_id))
        ELSE Resp(200, [correction_factors |->
                            get_dimensions_correction_factor(P, profile_id,
                                [length |-> length, width |-> width, depth |-> depth]),
                        profile |-> P[profile_id.s].name])

get_prices(P, data) ==
    IF ~Truthy(data) THEN Resp(400, ErrorBody("No data received", Str("")))
    ELSE
    LET profile_id == DictGet(data.d, "profile_id", Str("kp1"))
        profile == get_profile(P, profile_id)
    IN  IF "PROFILES" \notin app_imports THEN Resp(400, NameErrorBody("PROFILES"))
        ELSE IF NotInProfiles(P, profile_id) THEN Resp(400, ErrorBody("Unknown KP profile", profile_id))
        ELSE Resp(200, [materials_prices |-> profile.materials_prices,
                        works_prices |-> profile.works_prices,
                        profile |-> profile.name])

get_costs(P, data) ==
    IF ~Truthy(data) THEN Resp(400, ErrorBody("No data received", Str("")))
    ELSE
    LET profile_id == DictGet(data.d, "profile_id", Str("kp1"))
        profile == get_profile(P, profile_id)
    IN  IF "PROFILES" \notin app_imports THEN Resp(400, NameErrorBody("PROFILES"))
        ELSE IF NotInProfiles(P, profile_id) THEN Resp(400, ErrorBody("Unknown KP profile", profile_id))
        ELSE Resp(200, [costs |-> profile.costs, profile |-> profile.name])

(* safe_extract_float of compare_estimate *)
safe_extract_float(x) ==
    IF x.t = "none" THEN R(0)
    ELSE IF FloatOf(x).ok THEN FloatOf(x).q ELSE R(0)

(* safe_extract_measurement of compare_estimate, applied to a formatted    *)
(* string of the calculation result                                        *)
safe_extract_measurement(string_value) == ParseNumber(string_value)

Compared(calc, estimate, diff) == [calc |-> calc, estimate |-> estimate, diff |-> diff]

(* Lines 1395-1500: the comparison of what calculate returned with the     *)
(* estimate                                                                *)
compare_response(calc_result, estimate_data) ==
    LET bd == calc_result.basic_dimensions
        est(key) == safe_extract_float(DictGet(estimate_data, key, Num(R(0))))
        dim(calc, estimate) == Compared(calc, estimate, Round2(RSub(calc, estimate)))
        cost(calc, estimate) == Compared(calc, estimate, Round(RSub(R(calc), estimate)))
    IN  IF "basic_dimensions" \notin DOMAIN calc_result
        THEN Resp(500, [success |-> FALSE,
                        error |-> [msg |-> "Error extracting dimensions",
                                   detail |-> Str("KeyError: basic_dimensions")]])
        ELSE Resp(200,
               [success |-> TRUE,
                comparison |->
                  [dimensions |->
                     [water_surface |-> dim(safe_extract_measurement(bd.Ploshchad_vodnogo_zerkala),
                                            est("water_surface")),
                      perimeter |-> dim(safe_extract_measurement(bd.Perimetr), est("perimeter")),
                      wall_area |-> dim(safe_extract_measurement(bd.Ploshchad_sten), est("wall_area")),
                      finishing_area |-> dim(safe_extract_measurement(bd.Ploshchad_otdelki),
                                             est("finishing_area")),
                      water_volume |-> dim(safe_extract_measurement(bd.Obem_vody), est("water_volume"))],
                   costs |->
                     [materials |-> cost(calc_result.costs.materials_total, est("materials_cost")),
                      work |-> cost(calc_result.costs.works_total, est("work_cost")),
                      equipment |-> cost(calc_result.costs.equipment_total, est("equipment_cost")),
                      total |-> cost(calc_result.costs.total, est("total_cost"))]]])

(* Lines 1335-1349: profile_id as compare_estimate derives it from the body *)
compare_profile_id(d) ==
    LET profile_id0 == DictGet(d, "profile_id", Str("kp1"))
        pool_type == DictGet(d, "pool_type", Str("liner"))
    IN  IF ~Truthy(profile_id0)
        THEN IF IsId(pool_type, "liner") THEN Str("kp1")
             ELSE IF IsId(pool_type, "tile") THEN Str("kp2")
             ELSE IF IsId(pool_type, "mosaic") THEN Str("kp3")
             ELSE Str("kp1")
        ELSE profile_id0

compare_estimate(P, data) ==
    IF ~Truthy(data)
    THEN Resp(400, [success |-> FALSE, error |-> [msg |-> "No data received", detail |-> Str("")]])
    ELSE
    LET d == data.d
        bad == FirstIndex([i \in 1..Len(required_params) |-> ~FloatOfGet(d, required_params[i]).ok])
    IN  IF bad # 0
        THEN Resp(400, [success |-> FALSE,
                        error |-> [msg |-> "Invalid dimensions format", detail |-> Str(required_params[bad])]])
        ELSE compare_response(calculate(P, FloatOfGet(d, "length").q, FloatOfGet(d, "width").q,
                                        FloatOfGet(d, "depth").q, FloatOfGet(d, "wall_thickness").q,
                                        compare_profile_id(d)),
                              DictGet(d, "estimate", EmptyDict).d)

-----------------------------------------------------------------------------
(* Stores.  The only statements of the program that write into an existing *)
(* dict are basic_dims["_raw"] = ... in calculate and result["customer"],  *)
(* result["generation_date"] = ... in generate_kp.  get_profile hands out  *)
(* the profile objects themselves, not copies, so a store through such a   *)
(* reference would change the table for every later call.                 *)

LocalObject == [kind |-> "local"]
ProfileObject(key) == [kind |-> "profile", key |-> key]

(* obj[key] = value: the profile table afterwards *)
setitem(P, obj, key, value) ==
    IF obj.kind = "profile"
    THEN [P EXCEPT ![obj.key] = [k \in DOMAIN @ \cup {key} |-> IF k = key THEN value ELSE @[k]]]
    ELSE P

(* What basic_dims would be if it were the profile record that get_profile *)
(* hands out                                                               *)
profile_as_basic_dims_object(P, profile_id) == ProfileObject(profile_key(P, profile_id))

(* The object calculate_basic_dimensions returns: a dict built by its      *)
(* return statement                                                        *)
basic_dims_object(P, profile_id) == LocalObject

(* The object calculate returns: the dict built by result = {...}          *)
calculate_result_object(P, profile_id) == LocalObject

(* The profile table after a calculate that would keep the totals it      *)
(* computed in the profile it used                                         *)
calculate_stores_costs(P, profile_id, res) ==
    IF IsError(res) THEN P
    ELSE setitem(P, ProfileObject(profile_key(P, profile_id)), "costs", res.costs)

(* The profile table after a call of calculate that returned res *)
calculate_stores(P, profile_id, res) ==
    IF IsError(res) THEN P
    ELSE setitem(P, basic_dims_object(P, profile_id), "_raw", res.basic_dimensions._raw)

(* The profile table after the route handlers that call calculate: resp is *)
(* the answer of the handler                                               *)
calculate_route_stores(P, data, resp) ==
    IF resp.status = 200
    THEN calculate_stores(P, route_profile_id(data.d), resp.body)
    ELSE P

compare_estimate_stores(P, data) ==
    IF /\ Truthy(data)
       /\ \A i \in 1..Len(required_params) : FloatOfGet(data.d, required_params[i]).ok
    THEN calculate_stores(P, compare_profile_id(data.d),
                          calculate(P, FloatOfGet(data.d, "length").q, FloatOfGet(data.d, "width").q,
                                    FloatOfGet(data.d, "depth").q, FloatOfGet(data.d, "wall_thickness").q,
                                    compare_profile_id(data.d)))
    ELSE P

generate_kp_stores(P, data, today, resp) ==
    IF resp.status = 200
    THEN setitem(setitem(calculate_stores(P, DictGet(data.d, "profile_id", Str("kp1")), resp.body),
                         calculate_result_object(P, DictGet(data.d, "profile_id", Str("kp1"))),
                         "customer", DictGet(data.d, "customer", EmptyDict)),
                 calculate_result_object(P, DictGet(data.d, "profile_id", Str("kp1"))),
                 "generation_date", today)
    ELSE P

-----------------------------------------------------------------------------
(* The inputs of the checked runs *)

MaxLengthSteps == 1
MaxWidthSteps == 1
MaxDepthSteps == 1
MaxWallSteps == 1

(* Millimetres.  The steps are chosen so that no formatted or rounded      *)
(* quantity of a pool of the grid falls exactly half way between two       *)
(* printed values, where binary floating point and exact arithmetic can    *)
(* round to different sides                                                *)
Lengths == {3500 + 4300 * k : k \in 0..MaxLengthSteps}
Widths == {2300 + 800 * k : k \in 0..MaxWidthSteps}
Depths == {1200 + 400 * k : k \in 0..MaxDepthSteps}
Walls == {160 + 60 * k : k \in 0..MaxWallSteps}

Pool(l, w, d, t) == [length |-> l, width |-> w, depth |-> d, wall_thickness |-> t]

(* The two pools the specification names *)
SmallPool == Pool(3000, 2000, 1000, 150)
ReferencePool == Pool(8000, 4000, 1500, 200)
NamedPools == {SmallPool, ReferencePool}

Pools == NamedPools \cup {Pool(l, w, d, t) : l \in Lengths, w \in Widths, d \in Depths, t \in Walls}

(* Pools with one dimension that is not positive *)
NonPositivePools ==
    {[SmallPool EXCEPT ![k] = v] : k \in {"length", "width", "depth", "wall_thickness"}, v \in {0, -1000}}

KnownIds == {"kp1", "kp2", "kp3"}

(* Arguments for profile_id that name no profile *)
UnknownProfileArgs ==
    {Str("zzz"), Str(""), PyNone, Num(R(7)), PyList, EmptyDict,
     Dict([id |-> Str("zzz")]), Dict([id |-> Num(R(7))]), Dict([name |-> Str("kp2")])}

KnownProfileArgs ==
    {Str(k) : k \in KnownIds} \cup {Dict([id |-> Str(k)]) : k \in KnownIds}
        \cup {Dict([id |-> Str("kp2"), name |-> Str("x")])}

ProfileArgs == KnownProfileArgs \cup UnknownProfileArgs

CalculateArgs(pool, profile_id) ==
    [length |-> R(pool.length), width |-> R(pool.width), depth |-> R(pool.depth),
     wall_thickness |-> R(pool.wall_thickness), profile_id |-> profile_id]

CalculateRequests ==
    {CalculateArgs(pool, Str(k)) : pool \in Pools, k \in KnownIds}
        \cup {CalculateArgs(pool, a) : pool \in NamedPools, a \in ProfileArgs}
        \cup {CalculateArgs(pool, Str("kp1")) : pool \in NonPositivePools}
        \cup {[CalculateArgs(SmallPool, Str("kp1")) EXCEPT ![k] = Inf] :
                k \in {"length", "wall_thickness"}}
        \cup {[CalculateArgs(SmallPool, Str(p)) EXCEPT !.length = MinFloat] : p \in {"kp1", "kp2"}}
        \cup {[CalculateArgs(SmallPool, Str("kp1")) EXCEPT !.wall_thickness = w] :
                w \in {R(200), MinFloat}}

(* JSON bodies.  A field of a body is absent, or holds one of these values *)
Absent == [t |-> "absent"]
BadValues == {Absent, PyNone, Str("abc"), Num(R(0)), Num(R(-1000))}

Body(fields) == Dict([k \in {x \in DOMAIN fields : fields[x] # Absent} |-> fields[k]])

PoolFields(pool) == [k \in DOMAIN pool |-> Num(R(pool[k]))]

(* The body of pool with one field replaced by a bad value, or two fields  *)
(* of which the first is length                                            *)
BadBodies(pool) ==
    {Body([PoolFields(pool) EXCEPT ![k] = v]) : k \in DOMAIN pool, v \in BadValues}
        \cup {Body([PoolFields(pool) EXCEPT !.length = v1, ![k] = v2]) :
                k \in DOMAIN pool \ {"length"}, v1 \in BadValues, v2 \in BadValues}

StringBody == Body([length |-> Str("8000"), width |-> Str("4000"),
                    depth |-> Str("1500"), wall_thickness |-> Str("200")])

With(fields, extra) ==
    [k \in DOMAIN fields \cup DOMAIN extra |-> IF k \in DOMAIN extra THEN extra[k] ELSE fields[k]]

ProfileFields ==
    {<<>>, [profile_id |-> Str("kp2")], [profile_id |-> Str("zzz")], [profile |-> Str("kp3")],
     [profile_id |-> PyNone, profile |-> Str("kp2")], [profile_id |-> Str(""), pool_type |-> Str("tile")],
     [profile_id |-> Str(""), pool_type |-> Str("mosaic")], [profile_id |-> Str(""), pool_type |-> Str("liner")],
     [profile_id |-> Str(""), pool_type |-> Str("other")], [pool_type |-> Str("tile")],
     [profile_id |-> Num(R(7))], [profile_id |-> Dict([id |-> Str("kp3")])]}

NoBody == PyNone

CalculateBodies ==
    {NoBody, EmptyDict, StringBody}
        \cup {Body(With(PoolFields(pool), f)) : pool \in NamedPools, f \in ProfileFields}
        \cup BadBodies(SmallPool)

FullCustomer == Dict([name |-> Str("Ivan"), address |-> Str("Moscow"), phone |-> Str("+7")])

Customers ==
    {Absent, EmptyDict, FullCustomer,
     Dict([name |-> Str("Ivan"), address |-> Str("Moscow"), phone |-> Str("+7"), email |-> Str("i@x")]),
     Dict([name |-> Str("Ivan"), address |-> Str("Moscow")])}

KpProfileIds == {Absent, Str("kp1"), Str("kp2"), Str("zzz")}

GenerateKpBodies ==
    {NoBody, EmptyDict, StringBody}
        \cup {Body(With(PoolFields(ReferencePool), [profile_id |-> p, customer |-> c])) :
                p \in KpProfileIds, c \in Customers}
        \cup {Body(With(PoolFields(SmallPool), [profile_id |-> p, customer |-> FullCustomer])) :
                p \in KpProfileIds}
        \cup {Body(With(PoolFields(ReferencePool), [length |-> v, customer |-> FullCustomer])) :
                v \in BadValues}

Dates == {"01.11.2026", "02.11.2026"}

Estimates ==
    {Absent, EmptyDict,
     Dict([water_surface |-> Num(R(30)), perimeter |-> Num(R(24)), total_cost |-> Num(R(2000000))]),
     Dict([water_surface |-> Str("abc"), wall_area |-> PyNone, materials_cost |-> Str("8000")])}

CompareBodies ==
    {NoBody, EmptyDict, StringBody}
        \cup {Body(With(PoolFields(pool), With(f, [estimate |-> e]))) :
                pool \in NamedPools, e \in Estimates,
                f \in {<<>>, [profile_id |-> Str("kp2")], [profile_id |-> Str(""), pool_type |-> Str("mosaic")]}}
        \cup {Body([PoolFields(SmallPool) EXCEPT ![k] = v]) :
                k \in DOMAIN SmallPool, v \in BadValues}

ProfileBodies ==
    {NoBody, EmptyDict} \cup {Dict([profile_id |-> p]) : p \in {Str("kp1"), Str("kp2"), Str("zzz"), PyList}}
        \cup {Dict([other |-> Str("x")])}

CorrectionBodies ==
    {NoBody, EmptyDict}
        \cup {Body(With([k \in {"length", "width", "depth"} |-> Num(R(pool[k]))], [profile_id |-> p])) :
                pool \in NamedPools, p \in KpProfileIds}
        \cup {Body([length |-> v, width |-> Num(R(4000)), depth |-> Num(R(1500))]) : v \in BadValues}

UrlIds == KnownIds \cup {"zzz", "KP1", "1"}

Dimensions(pool) == [length |-> R(pool.length), width |-> R(pool.width), depth |-> R(pool.depth)]

CorrectionFactorArgs ==
    {[profile_id |-> p, original_dimensions |-> Dimensions(pool)] :
        p \in {Str(k) : k \in KnownIds} \cup {Str("zzz"), PyNone},
        pool \in NamedPools \cup {Pool(0, 4000, 1500, 200)}}

(* A pool whose pit volume, 14.046624 m3, is printed as 14.0 *)
RoundedDownPool == Pool(1100, 1500, 1000, 160)

GeometryArgs ==
    {[length |-> R(pool.length), width |-> R(pool.width), depth |-> R(pool.depth),
      wall_thickness |-> R(pool.wall_thickness)] : pool \in Pools \cup {RoundedDownPool}}

FormworkArgs ==
    {[length |-> R(pool.length), width |-> R(pool.width), depth |-> R(pool.depth),
      wall_thickness |-> R(pool.wall_thickness)] : pool \in NamedPools \cup {RoundedDownPool}}

(* basic_dims as calculate hands it to the cost functions *)
BasicDimsInputs ==
    {calculate_basic_dims(InitProfiles, R(pool.length), R(pool.width), R(pool.depth),
                          R(pool.wall_thickness), Str(k)) : pool \in NamedPools, k \in KnownIds}

CostArgs ==
    {[basic_dims |-> b, profile_id |-> p] :
        b \in BasicDimsInputs, p \in {Str(k) : k \in KnownIds} \cup {Str("zzz")}}

(* The correction_factors calculate_basic_dimensions is called with: None, *)
(* a dict with some of the five entries, a dict with all of them           *)
CorrectionFactorChoices ==
    {None, [perimeter |-> Frac(13, 12), water_volume |-> Frac(10, 11)]}
        \cup {get_dimensions_correction_factor(InitProfiles, Str(k), Dimensions(pool)) :
                k \in KnownIds, pool \in NamedPools}

BasicDimensionsArgs ==
    {[length |-> g.length, width |-> g.width, depth |-> g.depth,
      wall_thickness |-> g.wall_thickness, correction_factors |-> cf] :
        g \in GeometryArgs, cf \in CorrectionFactorChoices}

(* The sizes calculate_kp_items is called with: the two named pools, the   *)
(* small pool with one dimension of the reference pool, with a length of   *)
(* the smallest positive float, and the pool of that float in every        *)
(* dimension                                                               *)
KpItemsSizes ==
    {[length |-> R(pool.length), width |-> R(pool.width), depth |-> R(pool.depth)] :
        pool \in NamedPools}
        \cup {[length |-> R(8000), width |-> R(2000), depth |-> R(1000)],
              [length |-> R(3000), width |-> R(4000), depth |-> R(1000)],
              [length |-> R(3000), width |-> R(2000), depth |-> R(1500)],
              [length |-> MinFloat, width |-> R(2000), depth |-> R(1000)],
              [length |-> MinFloat, width |-> MinFloat, depth |-> MinFloat]}

KpItemsArgs ==
    {[length |-> size.length, width |-> size.width, depth |-> size.depth,
      pool_type |-> calculate_pool_type(Str(k)), profile_id |-> Str(k)] :
        size \in KpItemsSizes, k \in KnownIds}

-----------------------------------------------------------------------------
(* The program as a state machine.  A client issues one request at a time  *)
(* (Call); the handler of the operation then runs to completion, leaving   *)
(* its return value or HTTP response in result and the profile table as    *)
(* its stores left it.  pinned remembers one earlier call of calculate     *)
(* and what it returned, and whether other requests were served since.     *)

Pending == [pending |-> TRUE]
Done == "pending" \notin DOMAIN result

NoPin == [none |-> TRUE]
IsPinned == "args" \in DOMAIN pinned

PinnedInputs == {CalculateArgs(SmallPool, Str("kp1")), CalculateArgs(ReferencePool, Str("kp2"))}

Requests ==
    {[op |-> "calculate", args |-> a] : a \in CalculateRequests}
        \cup {[op |-> "calculate_basic_dimensions", args |-> a] : a \in BasicDimensionsArgs}
        \cup {[op |-> "calculate_earthworks", args |-> a] : a \in GeometryArgs}
        \cup {[op |-> "calculate_formwork", args |-> a] : a \in FormworkArgs}
        \cup {[op |-> "calculate_finishing_cost", args |-> a] : a \in CostArgs}
        \cup {[op |-> "calculate_materials_cost", args |-> a] : a \in CostArgs}
        \cup {[op |-> "calculate_works_cost", args |-> a] : a \in CostArgs}
        \cup {[op |-> "calculate_kp_items", args |-> a] : a \in KpItemsArgs}
        \cup {[op |-> "get_profile", args |-> [profile_id |-> a]] : a \in ProfileArgs}
        \cup {[op |-> "get_profiles_list", args |-> <<>>]}
        \cup {[op |-> "get_dimensions_correction_factor", args |-> a] : a \in CorrectionFactorArgs}
        \cup {[op |-> "/calculate", args |-> [data |-> b]] : b \in CalculateBodies}
        \cup {[op |-> "/compare_estimate", args |-> [data |-> b]] : b \in CompareBodies}
        \cup {[op |-> "/generate_kp", args |-> [data |-> b, today |-> t]] :
                b \in GenerateKpBodies, t \in Dates}
        \cup {[op |-> "/get_profiles", args |-> <<>>]}
        \cup {[op |-> "/get_profile", args |-> [profile_id |-> u]] : u \in UrlIds}
        \cup {[op |-> "/get_dimensions_correction", args |-> [data |-> b]] : b \in CorrectionBodies}
        \cup {[op |-> "/get_prices", args |-> [data |-> b]] : b \in ProfileBodies}
        \cup {[op |-> "/get_costs", args |-> [data |-> b]] : b \in ProfileBodies}

Init ==
    /\ PROFILES = InitProfiles
    /\ op = "import"
    /\ args = <<>>
    /\ result = [imported |-> TRUE]
    /\ pinned = NoPin

Call ==
    /\ Done
    /\ \E r \in Requests :
        /\ op' = r.op
        /\ args' = r.args
    /\ result' = Pending
    /\ UNCHANGED <<PROFILES, pinned>>

(* Another request than the pinned one has been served *)
Served == pinned' = IF IsPinned THEN [pinned EXCEPT !.later = TRUE] ELSE pinned

Handles(name) == op = name /\ ~Done

Calculate ==
    /\ Handles("calculate")
    /\ result' = [ret |-> calculate(PROFILES, args.length, args.width, args.depth,
                                    args.wall_thickness, args.profile_id)]
    /\ PROFILES' = calculate_stores(PROFILES, args.profile_id, result'.ret)
    /\ pinned' \in IF IsPinned
                   THEN {IF args = pinned.args THEN pinned ELSE [pinned EXCEPT !.later = TRUE]}
                   ELSE {NoPin} \cup {[args |-> args, result |-> result', later |-> FALSE] :
                                        x \in {args} \cap PinnedInputs}
    /\ UNCHANGED <<op, args>>

CalculateBasicDimensions ==
    /\ Handles("calculate_basic_dimensions")
    /\ result' = [ret |-> calculate_basic_dimensions(args.length, args.width, args.depth,
                                                      args.wall_thickness,
                                                      args.correction_factors)]
    /\ Served
    /\ UNCHANGED <<PROFILES, op, args>>

CalculateEarthworks ==
    /\ Handles("calculate_earthworks")
    /\ result' = [ret |-> calculate_earthworks(args.length, args.width, args.depth,
                                                args.wall_thickness)]
    /\ Served
    /\ UNCHANGED <<PROFILES, op, args>>

CalculateFormwork ==
    /\ Handles("calculate_formwork")
    /\ result' = [ret |-> calculate_formwork(args.length, args.width, args.depth,
                                              args.wall_thickness)]
    /\ Served
    /\ UNCHANGED <<PROFILES, op, args>>

CalculateFinishingCost ==
    /\ Handles("calculate_finishing_cost")
    /\ result' = [ret |-> calculate_finishing_cost(PROFILES, args.basic_dims, args.profile_id)]
    /\ Served
    /\ UNCHANGED <<PROFILES, op, args>>

CalculateMaterialsCost ==
    /\ Handles("calculate_materials_cost")
    /\ result' = [ret |-> calculate_materials_cost(PROFILES, args.basic_dims, args.profile_id)]
    /\ Served
    /\ UNCHANGED <<PROFILES, op, args>>

CalculateWorksCost ==
    /\ Handles("calculate_works_cost")
    /\ result' = [ret |-> calculate_works_cost(PROFILES, args.basic_dims, args.profile_id)]
    /\ Served
    /\ UNCHANGED <<PROFILES, op, args>>

CalculateKpItems ==
    /\ Handles("calculate_kp_items")
    /\ result' = [ret |-> calculate_kp_items(PROFILES, args.length, args.width, args.depth,
                                              args.pool_type, args.profile_id)]
    /\ Served
    /\ UNCHANGED <<PROFILES, op, args>>

GetProfile ==
    /\ Handles("get_profile")
    /\ result' = [ret |-> get_profile(PROFILES, args.profile_id)]
    /\ Served
    /\ UNCHANGED <<PROFILES, op, args>>

GetProfilesList ==
    /\ Handles("get_profiles_list")
    /\ result' = [ret |-> get_profiles_list(PROFILES)]
    /\ Served
    /\ UNCHANGED <<PROFILES, op, args>>

GetDimensionsCorrectionFactor ==
    /\ Handles("get_dimensions_correction_factor")
    /\ result' = [ret |-> get_dimensions_correction_factor(PROFILES, args.profile_id,
                                                            args.original_dimensions)]
    /\ Served
    /\ UNCHANGED <<PROFILES, op, args>>

CalculateRoute ==
    /\ Handles("/calculate")
    /\ result' = calculate_route(PROFILES, args.data)
    /\ PROFILES' = calculate_route_stores(PROFILES, args.data, result')
    /\ Served
    /\ UNCHANGED <<op, args>>

CompareEstimate ==
    /\ Handles("/compare_estimate")
    /\ result' = compare_estimate(PROFILES, args.data)
    /\ PROFILES' = compare_estimate_stores(PROFILES, args.data)
    /\ Served
    /\ UNCHANGED <<op, args>>

GenerateKp ==
    /\ Handles("/generate_kp")
    /\ result' = generate_kp(PROFILES, args.data, args.today)
    /\ PROFILES' = generate_kp_stores(PROFILES, args.data, args.today, result')
    /\ Served
    /\ UNCHANGED <<op, args>>

GetProfiles ==
    /\ Handles("/get_profiles")
    /\ result' = get_profiles(PROFILES)
    /\ Served
    /\ UNCHANGED <<PROFILES, op, args>>

GetProfileRoute ==
    /\ Handles("/get_profile")
    /\ result' = get_profile_route(PROFILES, args.profile_id)
    /\ Served
    /\ UNCHANGED <<PROFILES, op, args>>

GetDimensionsCorrection ==
    /\ Handles("/get_dimensions_correction")
    /\ result' = get_dimensions_correction(PROFILES, args.data)
    /\ Served
    /\ UNCHANGED <<PROFILES, op, args>>

GetPrices ==
    /\ Handles("/get_prices")
    /\ result' = get_prices(PROFILES, args.data)
    /\ Served
    /\ UNCHANGED <<PROFILES, op, args>>

GetCosts ==
    /\ Handles("/get_costs")
    /\ result' = get_costs(PROFILES, args.data)
    /\ Served
    /\ UNCHANGED <<PROFILES, op, args>>

Next ==
    \/ Call
    \/ Calculate
    \/ CalculateBasicDimensions
    \/ CalculateEarthworks
    \/ CalculateFormwork
    \/ CalculateFinishingCost
    \/ CalculateMaterialsCost
    \/ CalculateWorksCost
    \/ CalculateKpItems
    \/ GetProfile
    \/ GetProfilesList
    \/ GetDimensionsCorrectionFactor
    \/ CalculateRoute
    \/ CompareEstimate
    \/ GenerateKp
    \/ GetProfiles
    \/ GetProfileRoute
    \/ GetDimensionsCorrection
    \/ GetPrices
    \/ GetCosts

Spec == Init /\ [][Next]_vars

-----------------------------------------------------------------------------
(* Properties                                                              *)

KnownProfileStrings == {Str(k) : k \in KnownIds}

(* calculate has returned, and what it returned is not an error *)
CalculateSucceeded == op = "calculate" /\ Done /\ ~IsError(result.ret)

(* calculate has returned for positive dimensions and one of kp1, kp2, kp3 *)
CalculateSucceededForProfile ==
    /\ CalculateSucceeded
    /\ RPos(args.length) /\ RPos(args.width) /\ RPos(args.depth) /\ RPos(args.wall_thickness)
    /\ args.profile_id \in KnownProfileStrings

(* C1: for all positive length, width, depth and wall_thickness and each   *)
(* of the profiles kp1, kp2, kp3, the water surface in the basic           *)
(* dimensions of the result of calculate is (length/1000) x (width/1000),  *)
(* as printed with one decimal                                             *)
C1_WaterSurfaceIsLengthTimesWidth ==
    CalculateSucceededForProfile =>
        result.ret.basic_dimensions.Ploshchad_vodnogo_zerkala
            = Fmt(RMul(RDiv(underflowed(args.length), R(1000)), RDiv(underflowed(args.width), R(1000))), 1, "m2")

(* C2: for all positive inputs and each of the profiles kp1, kp2, kp3, the *)
(* basic dimensions calculate returns satisfy finishing area = water       *)
(* surface + wall area, on the values returned                             *)
C2_FinishingAreaIsWaterSurfacePlusWallArea ==
    CalculateSucceededForProfile =>
        ParseNumber(result.ret.basic_dimensions.Ploshchad_otdelki)
            = RAdd(ParseNumber(result.ret.basic_dimensions.Ploshchad_vodnogo_zerkala),
                   ParseNumber(result.ret.basic_dimensions.Ploshchad_sten))

(* C3: calculate(8000, 4000, 1500, 200, "kp1") reports water surface 32.0, *)
(* perimeter 24.0, wall area 39.6 and finishing area 71.6                  *)
C3_ReferencePoolBasicDimensions ==
    (op = "calculate" /\ Done /\ args = CalculateArgs(ReferencePool, Str("kp1"))) =>
        /\ ~IsError(result.ret)
        /\ ParseNumber(result.ret.basic_dimensions.Ploshchad_vodnogo_zerkala) = Frac(320, 10)
        /\ ParseNumber(result.ret.basic_dimensions.Perimetr) = Frac(240, 10)
        /\ ParseNumber(result.ret.basic_dimensions.Ploshchad_sten) = Frac(396, 10)
        /\ ParseNumber(result.ret.basic_dimensions.Ploshchad_otdelki) = Frac(716, 10)

(* The field k of the JSON object d is missing, cannot be converted to a   *)
(* number, or is not strictly positive                                     *)
BadField(d, k) ==
    \/ k \notin DOMAIN d
    \/ /\ k \in DOMAIN d
       /\ \/ d[k].t \notin {"num", "str"}
          \/ d[k].t = "str" /\ d[k].s \notin DOMAIN NumericLiterals
          \/ d[k].t = "num" /\ ~RPos(d[k].q)

(* C4: POST /calculate answers 400 for every JSON body in which one of     *)
(* length, width, depth, wall_thickness is missing, cannot be converted to *)
(* a number (a non-numeric string, null) or is not strictly positive       *)
C4_BadFieldAnswers400 ==
    (/\ op = "/calculate" /\ Done
     /\ IsPyDict(args.data)
     /\ \E i \in 1..Len(required_params) : BadField(args.data.d, required_params[i]))
        => result.status = 400

(* The id an argument of get_profile names: the string itself, or the      *)
(* string under "id" of a dict; "" when it names none                      *)
NamedId(a) ==
    CASE a.t = "str" -> a.s
      [] a.t = "dict" -> IF "id" \in DOMAIN a.d /\ a.d.id.t = "str" THEN a.d.id.s ELSE ""
      [] OTHER -> ""

(* C5: get_profile returns (and does not raise) the KP1 profile for every  *)
(* argument that names none of kp1, kp2, kp3: an unknown string, a value   *)
(* that is no string, a dict whose "id" is missing or unknown; for a known *)
(* id, or a dict whose "id" is a known id, it returns that profile         *)
C5_GetProfileReturnsNamedProfileOrKP1 ==
    (op = "get_profile" /\ Done) =>
        /\ DOMAIN result = {"ret"}
        /\ result.ret = CASE NamedId(args.profile_id) = "kp1" -> KP1
                          [] NamedId(args.profile_id) = "kp2" -> KP2
                          [] NamedId(args.profile_id) = "kp3" -> KP3
                          [] OTHER -> KP1

(* get_profile has answered a dict with an unknown id *)
C5_UnknownIdInDictGotKP1 ==
    /\ op = "get_profile" /\ Done
    /\ args.profile_id = Dict([id |-> Str("zzz")])
    /\ result.ret = KP1

(* C6: GET /get_profile/<id> answers 200 with the profile record for id in *)
(* kp1, kp2, kp3, and 400 with an error naming the id for every other id   *)
C6_GetProfileRouteAnswers ==
    (op = "/get_profile" /\ Done) =>
        IF args.profile_id \in KnownIds
        THEN /\ result.status = 200
             /\ result.body.profile = InitProfiles[args.profile_id]
        ELSE /\ result.status = 400
             /\ result.body.error.detail = Str(args.profile_id)

(* A body of /generate_kp with four strictly positive dimensions, a        *)
(* profile_id among kp1, kp2, kp3 or none, and a customer with name,       *)
(* address and phone                                                       *)
ValidKpBody(data) ==
    /\ IsPyDict(data)
    /\ \A i \in 1..Len(required_params) :
        /\ required_params[i] \in DOMAIN data.d
        /\ IsPyNum(data.d[required_params[i]])
        /\ RPos(data.d[required_params[i]].q)
    /\ "profile_id" \in DOMAIN data.d => data.d.profile_id \in KnownProfileStrings
    /\ "customer" \in DOMAIN data.d
    /\ IsPyDict(data.d.customer)
    /\ {"name", "address", "phone"} \subseteq DOMAIN data.d.customer.d

(* C7: POST /generate_kp with such a body answers 200 with the result of   *)
(* calculate for those inputs, the customer and the generation date        *)
C7_GenerateKpAnswersWithCalculation ==
    (op = "/generate_kp" /\ Done /\ ValidKpBody(args.data)) =>
        /\ result.status = 200
        /\ result.body =
            With(calculate(InitProfiles, args.data.d.length.q, args.data.d.width.q,
                           args.data.d.depth.q, args.data.d.wall_thickness.q,
                           DictGet(args.data.d, "profile_id", Str("kp1"))),
                 [customer |-> args.data.d.customer, generation_date |-> args.today])

(* C8: calculate is deterministic and independent of history: a call with  *)
(* the arguments of an earlier call returns what the earlier call          *)
(* returned, whatever was called before or between the two                 *)
C8_CalculateIsHistoryIndependent ==
    (op = "calculate" /\ Done /\ IsPinned /\ args = pinned.args) => result = pinned.result

(* calculate has returned for arguments it was called with before, other   *)
(* requests having been served in between                                  *)
C8_RepeatedAfterOtherCalls ==
    /\ op = "calculate" /\ Done
    /\ IsPinned /\ pinned.later
    /\ args = pinned.args
    /\ ~IsError(result.ret)

(* C9: after any sequence of operations the profile table and every        *)
(* profile record in it have their initial values                          *)
C9_ProfilesKeepInitialValues == PROFILES = InitProfiles

(* /calculate has answered with a calculation, after an earlier call of    *)
(* calculate: the stores of both have been made                            *)
C9_StoresHaveBeenMade ==
    /\ op = "/calculate" /\ Done
    /\ result.status = 200
    /\ IsPinned

AllPositive(d) == \A k \in DOMAIN d : d[k].v > 0

AllQtyPositive(items) == \A i \in 1..Len(items) : RPos(items[i].qty)

(* C10: calculate(3000, 2000, 1000, 150) succeeds for each profile and     *)
(* every numeric quantity of its result is strictly positive: the basic    *)
(* dimensions, the earthworks, concrete and formwork quantities, the       *)
(* finishing cost figures area, perimeter, material_cost, work_cost and    *)
(* total_cost, every quantity of kp_items and the four cost totals         *)
C10_SmallPoolAllPositive ==
    (op = "calculate" /\ Done /\ \E p \in KnownProfileStrings : args = CalculateArgs(SmallPool, p)) =>
        /\ ~IsError(result.ret)
        /\ AllPositive([k \in DOMAIN result.ret.basic_dimensions \ {"_raw"} |->
                            result.ret.basic_dimensions[k]])
        /\ AllPositive(result.ret.earthworks)
        /\ AllPositive(result.ret.concrete_works)
        /\ AllPositive(result.ret.formwork)
        /\ RPos(result.ret.finishing_cost.area)
        /\ RPos(result.ret.finishing_cost.perimeter)
        /\ RPos(result.ret.finishing_cost.material_cost)
        /\ RPos(result.ret.finishing_cost.work_cost)
        /\ RPos(result.ret.finishing_cost.total_cost)
        /\ AllQtyPositive(result.ret.kp_items.equipment_items)
        /\ AllQtyPositive(result.ret.kp_items.materials_items)
        /\ AllQtyPositive(result.ret.kp_items.works_items)
        /\ result.ret.costs.materials_total > 0
        /\ result.ret.costs.works_total > 0
        /\ result.ret.costs.equipment_total > 0
        /\ result.ret.costs.total > 0

(* calculate_earthworks has returned *)
EarthworksReturned == op = "calculate_earthworks" /\ Done

(* The pit of the pool in args, in metres: 0.8 m of working space on each  *)
(* side, 0.2 m below the bottom                                            *)
PitLength == RAdd(RDiv(underflowed(args.length), R(1000)), RMul(R(2), RAdd(RDiv(underflowed(args.wall_thickness), R(1000)), Frac(8, 10))))
PitWidth == RAdd(RDiv(underflowed(args.width), R(1000)), RMul(R(2), RAdd(RDiv(underflowed(args.wall_thickness), R(1000)), Frac(8, 10))))
PitDepth == RAdd(RAdd(RDiv(underflowed(args.depth), R(1000)), RDiv(underflowed(args.wall_thickness), R(1000))), Frac(2, 10))
PitVolume == RMul(RMul(PitLength, PitWidth), PitDepth)

(* The ceiling of a rational, by integer division *)
CeilOf(x) == IF x[1] % x[2] = 0 THEN x[1] \div x[2] ELSE (x[1] \div x[2]) + 1

Sections ==
    {"basic_dimensions", "earthworks", "concrete_works", "formwork", "finishing_cost",
     "materials_cost", "works_cost", "kp_items", "costs", "pool_data"}

ArgsStrictlyPositive ==
    /\ args.length[1] > 0 /\ args.width[1] > 0
    /\ args.depth[1] > 0 /\ args.wall_thickness[1] > 0

ArgsFinite ==
    /\ args.length[2] # 0 /\ args.width[2] # 0
    /\ args.depth[2] # 0 /\ args.wall_thickness[2] # 0

ProfileSections(res) ==
    [k \in {"basic_dimensions", "finishing_cost", "materials_cost", "works_cost", "kp_items", "costs"} |->
        res[k]]

(* C13: calculate with a profile id that is none of kp1, kp2, kp3 falls    *)
(* back to the default profile: for positive dimensions its                *)
(* basic_dimensions, finishing_cost, materials_cost, works_cost, kp_items  *)
(* and costs are those of the same call with profile id kp1                *)
C13_UnknownProfileIsKp1 ==
    (/\ op = "calculate" /\ Done
     /\ ArgsStrictlyPositive /\ ArgsFinite
     /\ NamedId(args.profile_id) \notin KnownIds) =>
        /\ ~IsError(result.ret)
        /\ ProfileSections(result.ret)
            = ProfileSections(calculate(InitProfiles, args.length, args.width, args.depth,
                                        args.wall_thickness, Str("kp1")))

RouteOps ==
    {"/calculate", "/compare_estimate", "/generate_kp", "/get_profile", "/get_prices",
     "/get_costs", "/get_dimensions_correction"}

(* A route has answered a request during which NameError was raised: an    *)
(* exception that no request causes                                        *)
RouteRaisedInternally ==
    /\ op \in RouteOps /\ Done
    /\ "error" \in DOMAIN result.body
    /\ result.body.error.msg = "NameError: name is not defined"

(* C14: in every HTTP route an unexpected internal exception raised while  *)
(* the request is handled is answered with status 500, never with 400 or   *)
(* 200                                                                     *)
C14_InternalExceptionAnswers500 == RouteRaisedInternally => result.status = 500

(* A required dimension of the body is missing, or is a number that is not *)
(* strictly positive                                                       *)
MissingOrNotPositive(d, k) ==
    \/ k \notin DOMAIN d
    \/ k \in DOMAIN d /\ d[k].t = "num" /\ ~RPos(d[k].q)

(* C15: POST /compare_estimate answers 400 for every body in which one of  *)
(* length, width, depth, wall_thickness is missing or is not strictly      *)
(* positive                                                                *)
C15_BadDimensionAnswers400 ==
    (/\ op = "/compare_estimate" /\ Done
     /\ IsPyDict(args.data)
     /\ \E i \in 1..Len(required_params) :
            MissingOrNotPositive(args.data.d, required_params[i]))
        => result.status = 400

(* The correction factors computed from the profile's own reference pool   *)
(* size, profile['dimensions']                                             *)
ProfileOwnFactors(P, profile_id) ==
    LET own == get_profile(P, profile_id).dimensions
    IN  get_dimensions_correction_factor(P, profile_id,
            [length |-> R(own.length), width |-> R(own.width), depth |-> R(own.depth)])

(* C16: the correction factors are a property of the profile alone: for    *)
(* positive user dimensions each factor is the profile's reference basic   *)
(* dimension divided by the theoretical value of the profile's own         *)
(* reference pool size, whatever the user's dimensions are                 *)
C16_FactorsDependOnProfileOnly ==
    (/\ op = "get_dimensions_correction_factor" /\ Done
     /\ RPos(args.original_dimensions.length)
     /\ RPos(args.original_dimensions.width)
     /\ RPos(args.original_dimensions.depth))
        => result.ret = ProfileOwnFactors(InitProfiles, args.profile_id)

(* The materials scale of a pool of the given size against the reference   *)
(* dimensions bd: 0.4 x surface ratio + 0.4 x volume ratio + 0.2 x         *)
(* perimeter ratio                                                         *)
MaterialsScaleAgainst(bd, length_m, width_m, depth_m) ==
    RAdd(RAdd(RMul(Frac(4, 10), RDiv(RMul(length_m, width_m), bd.water_surface)),
              RMul(Frac(4, 10), RDiv(RMul(RMul(length_m, width_m), depth_m), bd.water_volume))),
         RMul(Frac(2, 10), RDiv(RMul(R(2), RAdd(length_m, width_m)), bd.perimeter)))

(* C17: for every profile p and positive dimensions, calculate_kp_items    *)
(* returns materials_total = round(p.costs.materials_total x the materials *)
(* scale), the ratios of the scale being taken against the reference       *)
(* dimensions of the selected profile p, p.basic_dimensions                *)
C17_MaterialsScaledAgainstOwnProfile ==
    (op = "calculate_kp_items" /\ Done) =>
        LET p == get_profile(InitProfiles, args.profile_id)
        IN  result.ret.materials_total
                = RoundScaled(p.costs.materials_total,
                      MaterialsScaleAgainst(p.basic_dimensions, RDiv(underflowed(args.length), R(1000)),
                                            RDiv(underflowed(args.width), R(1000)), RDiv(underflowed(args.depth), R(1000))))

BasicDimensionsReturned == op = "calculate_basic_dimensions" /\ Done

(* The factor of one dimension: the entry of correction_factors, 1.0 when  *)
(* correction_factors is None or lacks the entry                           *)
FactorOf(cf, k) == IF cf = None THEN R(1) ELSE IF k \in DOMAIN cf THEN cf[k] ELSE R(1)

LengthM == RDiv(underflowed(args.length), R(1000))
WidthM == RDiv(underflowed(args.width), R(1000))
DepthM == RDiv(underflowed(args.depth), R(1000))

UnscaledKeys ==
    {"concrete_volume", "earth_volume", "pit_area", "pit_length", "pit_width", "pit_depth",
     "outer_length", "outer_width", "outer_perimeter"}

(* C18: the raw values calculate_basic_dimensions returns are              *)
(* water_surface = L x W x f_ws, perimeter = 2(L + W) x f_p, wall_area =   *)
(* 2(L + W) x D x f_wa, finishing_area = (L x W + 2(L + W) x D) x f_fa and *)
(* water_volume = L x W x D x f_wv, in metres, each f the matching entry   *)
(* of correction_factors or 1.0; the concrete and earth volumes, the pit   *)
(* and the outer dimensions are those of the call without correction       *)
C18_RawValuesAreScaledTheoreticalValues ==
    BasicDimensionsReturned =>
        LET raw == result.ret._raw
            cf == args.correction_factors
            perimeter == RMul(R(2), RAdd(LengthM, WidthM))
            plain == calculate_basic_dimensions(args.length, args.width, args.depth,
                                                args.wall_thickness, None)._raw
        IN  /\ raw.water_surface = RMul(RMul(LengthM, WidthM), FactorOf(cf, "water_surface"))
            /\ raw.perimeter = RMul(perimeter, FactorOf(cf, "perimeter"))
            /\ raw.wall_area = RMul(RMul(perimeter, DepthM), FactorOf(cf, "wall_area"))
            /\ raw.finishing_area
                = RMul(RAdd(RMul(LengthM, WidthM), RMul(perimeter, DepthM)),
                       FactorOf(cf, "finishing_area"))
            /\ raw.water_volume
                = RMul(RMul(RMul(LengthM, WidthM), DepthM), FactorOf(cf, "water_volume"))
            /\ \A k \in UnscaledKeys : raw[k] = plain[k]

(* calculate_basic_dimensions has returned for factors of which the        *)
(* finishing area's is not the one the water surface and the wall area     *)
(* would give: the finishing area is scaled by its own factor              *)
C18_ScaledByOwnFactor ==
    /\ BasicDimensionsReturned
    /\ args.correction_factors # None
    /\ "finishing_area" \in DOMAIN args.correction_factors
    /\ result.ret._raw.finishing_area
        # RAdd(result.ret._raw.water_surface, result.ret._raw.wall_area)

(* C19: in every successful result of calculate, costs.total is the sum of *)
(* costs.materials_total, costs.works_total and costs.equipment_total, and *)
(* the four are kp_items' total_cost, materials_total, works_total and     *)
(* equipment_total                                                         *)
C19_CostsAreKpItemsTotals ==
    CalculateSucceeded =>
        LET costs == result.ret.costs
            kp_items == result.ret.kp_items
        IN  /\ costs.total = costs.materials_total + costs.works_total + costs.equipment_total
            /\ costs.total = kp_items.total_cost
            /\ costs.materials_total = kp_items.materials_total
            /\ costs.works_total = kp_items.works_total
            /\ costs.equipment_total = kp_items.equipment_total

(* calculate has succeeded with three totals that are all positive *)
C19_SucceededWithPositiveTotals ==
    /\ CalculateSucceeded
    /\ result.ret.kp_items.materials_total > 0
    /\ result.ret.kp_items.works_total > 0
    /\ result.ret.kp_items.equipment_total > 0
    /\ result.ret.costs.total > result.ret.kp_items.equipment_total

(* The volume of the pool with its walls and bottom, in cubic metres *)
OuterVolume ==
    LET wall_m == RDiv(underflowed(args.wall_thickness), R(1000))
    IN  RMul(RMul(RAdd(RDiv(underflowed(args.length), R(1000)), RMul(R(2), wall_m)),
                  RAdd(RDiv(underflowed(args.width), R(1000)), RMul(R(2), wall_m))),
             RAdd(RDiv(underflowed(args.depth), R(1000)), wall_m))

FormworkReturned == op = "calculate_formwork" /\ Done

(* C21: for positive inputs the total formwork area calculate_formwork     *)
(* reports is the sum of the outer wall formwork area, the inner wall      *)
(* formwork area and the bottom area, to the tenth of a square metre the   *)
(* report carries                                                          *)
C21_TotalFormworkIncludesBottom ==
    (/\ FormworkReturned
     /\ RPos(args.length) /\ RPos(args.width) /\ RPos(args.depth) /\ RPos(args.wall_thickness))
        => LET wall_m == RDiv(underflowed(args.wall_thickness), R(1000))
               outer_perimeter ==
                   RMul(R(2), RAdd(RAdd(LengthM, RMul(R(2), wall_m)),
                                   RAdd(WidthM, RMul(R(2), wall_m))))
               outer_area == RMul(outer_perimeter, RAdd(DepthM, wall_m))
               inner_area == RMul(RMul(R(2), RAdd(LengthM, WidthM)), DepthM)
               bottom_area == RMul(LengthM, WidthM)
           IN  result.ret.Obshchaya_ploshchad_opalubki
                   = Fmt(RAdd(RAdd(outer_area, inner_area), bottom_area), 1, "m2")

RECURSIVE SumOver(_, _)
(* The sum of the amounts displayed under the given keys of a dict of line *)
(* items                                                                   *)
SumOver(items, keys) ==
    IF keys = {} THEN 0
    ELSE LET k == CHOOSE x \in keys : TRUE
         IN  items[k].v + SumOver(items, keys \ {k})

SumOfAmounts(items) == SumOver(items, DOMAIN items)

(* C22: for each of kp1, kp2, kp3 the amounts of the line items that       *)
(* calculate_materials_cost displays sum exactly to the total_cost it      *)
(* returns, the profile's costs.materials_total; likewise the line items   *)
(* of calculate_works_cost and the profile's costs.works_total             *)
C22_LineItemsSumToTotal ==
    /\ (/\ op = "calculate_materials_cost" /\ Done
        /\ args.profile_id \in KnownProfileStrings) =>
            /\ result.ret.total_cost
                = get_profile(InitProfiles, args.profile_id).costs.materials_total
            /\ SumOfAmounts(result.ret.materials) = result.ret.total_cost
    /\ (/\ op = "calculate_works_cost" /\ Done
        /\ args.profile_id \in KnownProfileStrings) =>
            /\ result.ret.total_cost
                = get_profile(InitProfiles, args.profile_id).costs.works_total
            /\ SumOfAmounts(result.ret.works) = result.ret.total_cost

(* POST /calculate has answered with a calculation; the profile used is in *)
(* pool_data of the body                                                   *)
RouteCalculated == op = "/calculate" /\ Done /\ result.status = 200

PoolTypeProfile(pool_type) ==
    CASE IsId(pool_type, "liner") -> "kp1"
      [] IsId(pool_type, "tile") -> "kp2"
      [] IsId(pool_type, "mosaic") -> "kp3"
      [] OTHER -> "kp1"

(* C23: in POST /calculate, a body with pool_type but neither profile_id   *)
(* nor profile is calculated with the profile of the pool type (liner kp1, *)
(* tile kp2, mosaic kp3); a profile_id in the body takes precedence over   *)
(* profile; a body with none of the three keys is calculated with kp1      *)
C23_PoolTypeChoosesProfile ==
    RouteCalculated =>
        LET d == args.data.d
            used == result.body.pool_data.profile.id
        IN  /\ ("pool_type" \in DOMAIN d /\ "profile_id" \notin DOMAIN d /\ "profile" \notin DOMAIN d)
                => used = PoolTypeProfile(d.pool_type)
            /\ ("profile_id" \in DOMAIN d /\ d.profile_id \in KnownProfileStrings)
                => used = d.profile_id.s
            /\ ("pool_type" \notin DOMAIN d /\ "profile_id" \notin DOMAIN d /\ "profile" \notin DOMAIN d)
                => used = "kp1"

(* C24: for positive inputs the soil removal volume calculate_earthworks   *)
(* reports is the pit volume minus the backfill volume, to the tenth of a  *)
(* cubic metre the report carries                                          *)
C24_RemovalIsPitMinusBackfill ==
    (/\ EarthworksReturned
     /\ RPos(args.length) /\ RPos(args.width) /\ RPos(args.depth) /\ RPos(args.wall_thickness))
        => LET backfill_volume == RSub(PitVolume, OuterVolume)
           IN  result.ret.Obem_vyvoza_grunta = Fmt(RSub(PitVolume, backfill_volume), 1, "m3")

(* C25: in every successful result of calculate for kp1, kp2 or kp3,       *)
(* finishing_cost.area is the finishing area and finishing_cost.perimeter  *)
(* the perimeter reported in basic_dimensions of the same result, to the   *)
(* one decimal of the report                                               *)
C25_FinishingPricedOnReportedArea ==
    CalculateSucceededForProfile =>
        /\ result.ret.finishing_cost.area
            = ParseNumber(result.ret.basic_dimensions.Ploshchad_otdelki)
        /\ result.ret.finishing_cost.perimeter
            = ParseNumber(result.ret.basic_dimensions.Perimetr)

(* The five corrected basic dimensions as a result of calculate reports    *)
(* them                                                                    *)
CorrectedDimensions(res) ==
    [water_surface |-> res.basic_dimensions.Ploshchad_vodnogo_zerkala,
     perimeter |-> res.basic_dimensions.Perimetr,
     wall_area |-> res.basic_dimensions.Ploshchad_sten,
     finishing_area |-> res.basic_dimensions.Ploshchad_otdelki,
     water_volume |-> res.basic_dimensions.Obem_vody]

(* The reference basic dimensions of a profile, formatted as the report    *)
(* formats them                                                            *)
ReferenceDimensions(profile) ==
    [water_surface |-> Fmt(profile.basic_dimensions.water_surface, 1, "m2"),
     perimeter |-> Fmt(profile.basic_dimensions.perimeter, 1, "m/p"),
     wall_area |-> Fmt(profile.basic_dimensions.wall_area, 1, "m2"),
     finishing_area |-> Fmt(profile.basic_dimensions.finishing_area, 1, "m2"),
     water_volume |-> Fmt(profile.basic_dimensions.water_volume, 1, "m3")]

(* No dimension of args is so small that it is 0.0 in metres *)
ArgsNotUnderflowing ==
    /\ ~IsMinFloat(args.length) /\ ~IsMinFloat(args.width)
    /\ ~IsMinFloat(args.depth) /\ ~IsMinFloat(args.wall_thickness)

C27_TwoTotalsAgree ==
    (CalculateSucceededForProfile /\ ArgsNotUnderflowing) =>
        /\ result.ret.materials_cost.total_cost = result.ret.costs.materials_total
        /\ result.ret.works_cost.total_cost = result.ret.costs.works_total

(* C28: in every successful result of calculate the excavation volume      *)
(* reported under basic_dimensions equals the one reported under           *)
(* earthworks, and the pit dimensions among the raw values of              *)
(* calculate_basic_dimensions for the same pool are the pit dimensions     *)
(* earthworks reports                                                      *)
C28_OneExcavationVolume ==
    (CalculateSucceededForProfile /\ ArgsNotUnderflowing) =>
        LET raw == calculate_basic_dimensions(args.length, args.width, args.depth,
                                              args.wall_thickness, None)._raw
        IN  /\ result.ret.basic_dimensions.Obem_zemlyanyh_rabot
                = result.ret.earthworks.Obem_zemlyanyh_rabot
            /\ Fmt(RMul(raw.pit_length, R(1000)), 0, "mm") = result.ret.earthworks.Dlina_kotlovana
            /\ Fmt(RMul(raw.pit_width, R(1000)), 0, "mm") = result.ret.earthworks.Shirina_kotlovana
            /\ Fmt(RMul(raw.pit_depth, R(1000)), 0, "mm") = result.ret.earthworks.Glubina_kotlovana

(* calculate has succeeded for arguments that differ from those of an      *)
(* earlier successful call in the wall thickness only                      *)
SecondCallWithOtherWall ==
    /\ CalculateSucceeded /\ ArgsStrictlyPositive
    /\ IsPinned /\ ~IsError(pinned.result.ret)
    /\ args.wall_thickness # pinned.args.wall_thickness
    /\ [args EXCEPT !.wall_thickness = pinned.args.wall_thickness] = pinned.args

(* C29: two successful calls of calculate that differ only in a positive   *)
(* wall_thickness return equal costs.materials_total, costs.works_total,   *)
(* costs.equipment_total and costs.total                                   *)
C29_CostsIgnoreWallThickness ==
    SecondCallWithOtherWall => result.ret.costs = pinned.result.ret.costs

(* The second of two such calls has returned, with concrete, formwork and  *)
(* excavation quantities that are not those of the first                   *)
C29_OtherWallOtherQuantities ==
    /\ SecondCallWithOtherWall
    /\ result.ret.costs.total > 0
    /\ result.ret.concrete_works # pinned.result.ret.concrete_works
    /\ result.ret.formwork # pinned.result.ret.formwork
    /\ result.ret.earthworks # pinned.result.ret.earthworks

KpItemsReturned == op = "calculate_kp_items" /\ Done

CostTotals == {"materials_total", "works_total", "equipment_total", "total_cost"}

(* x <= y for two positive dimensions, the smallest positive float being   *)
(* below every other                                                       *)
DimensionLeq(x, y) ==
    IF IsMinFloat(x) THEN TRUE
    ELSE IF IsMinFloat(y) THEN FALSE
    ELSE x[1] * y[2] <= y[1] * x[2]

(* The calls of the same profile that differ from the current call by one  *)
(* or more increased dimensions                                            *)
LargerKpItemsArgs ==
    {b \in KpItemsArgs :
        /\ b.profile_id = args.profile_id
        /\ b # args
        /\ DimensionLeq(args.length, b.length)
        /\ DimensionLeq(args.width, b.width)
        /\ DimensionLeq(args.depth, b.depth)}

KpItemsOf(b) == calculate_kp_items(InitProfiles, b.length, b.width, b.depth, b.pool_type, b.profile_id)

KpItemsMonotone ==
    \A b \in LargerKpItemsArgs : \A k \in CostTotals : KpItemsOf(b)[k] >= result.ret[k]

EquipmentLowerBound ==
    Round(RMul(Frac(7, 10), R(get_profile(InitProfiles, args.profile_id).costs.equipment_total)))

(* The statement of C30 as the specification has it: the four totals never *)
(* decrease when a dimension increases, all four are strictly positive,    *)
(* and equipment_total is at least round(0.7 x the reference equipment     *)
(* total)                                                                  *)
C30_TotalsMonotoneAndPositive ==
    KpItemsReturned =>
        /\ KpItemsMonotone
        /\ \A k \in CostTotals : result.ret[k] > 0
        /\ result.ret.equipment_total >= EquipmentLowerBound

(* C30: for a fixed profile, increasing a dimension of calculate_kp_items  *)
(* never decreases materials_total, works_total, equipment_total or        *)
(* total_cost; equipment_total is at least round(0.7 x the profile's       *)
(* reference equipment total), so equipment_total and total_cost are       *)
(* strictly positive; materials_total and works_total are never negative,  *)
(* and are 0 for a pool small enough for their scale to round to 0         *)
C30_TotalsMonotoneAndNotNegative ==
    KpItemsReturned =>
        /\ KpItemsMonotone
        /\ \A k \in CostTotals : result.ret[k] >= 0
        /\ result.ret.equipment_total > 0
        /\ result.ret.total_cost > 0
        /\ result.ret.equipment_total >= EquipmentLowerBound

(* The pool of the smallest positive float in every dimension costs        *)
(* nothing in materials and works, exactly the lower bound in equipment,   *)
(* and less than every larger pool of the model                            *)
C30_SmallestPoolCostsEquipmentOnly ==
    /\ KpItemsReturned
    /\ IsMinFloat(args.length) /\ IsMinFloat(args.width) /\ IsMinFloat(args.depth)
    /\ result.ret.materials_total = 0
    /\ result.ret.works_total = 0
    /\ result.ret.equipment_total = EquipmentLowerBound
    /\ LargerKpItemsArgs # {}
    /\ \A b \in LargerKpItemsArgs : KpItemsOf(b).total_cost > result.ret.total_cost

====
